---- MODULE Spec2Model ----
(***************************************************************************)
(* Todo <-> Google Calendar synchronisation of the Selfish server.         *)
(* Models server/controllers/todoController.js (src/unnamed/part_003) and  *)
(* server/controllers/calenderController.js (src/unnamed/part_004).        *)
(* A handler runs from one await to the next in one step; the store        *)
(* (Supabase) and the calendar provider (Google) are state, their failures *)
(* are inputs at the await they strike.  runs holds the requests in        *)
(* flight: one client in Spec, SpecList and SpecShared, MaxProcs clients   *)
(* whose requests interleave at their awaits in SpecRace and SpecRefresh.  *)
(***************************************************************************)
EXTENDS Integers, Sequences, FiniteSets, TLC

VARIABLES todos, tokens, events, now, nextTodoId, nextEventId, ops, last, prev,
          runs

vars == <<todos, tokens, events, now, nextTodoId, nextEventId, ops, last, prev,
          runs>>

(***************************************************************************)
(* Bounds                                                                  *)
(***************************************************************************)
MaxTodos == 2
MaxEvents == 2
MaxOps == 2
MaxProcs == 2

(***************************************************************************)
(* Program constants                                                       *)
(***************************************************************************)
expiryBuffer == 5 * 60 * 1000
HourMs == 60 * 60 * 1000
DefaultLimit == 2

Users == {"A", "B"}
NoUser == "nobody"

(***************************************************************************)
(* Values.  A title is a sequence of one-character strings so that trim()  *)
(* is computed; a time string is an instant together with the format it    *)
(* is written in, so that string comparison (!==) differs from instant     *)
(* comparison.                                                             *)
(***************************************************************************)
Undef == "undefined"
Null == "null"
UndefTitle == <<"undefined">>

\* the WhiteSpace and LineTerminator code points that String.prototype.trim
\* strips: U+0009 to U+000D, U+0020, U+00A0, U+1680, U+2000 to U+200A,
\* U+2028, U+2029, U+202F, U+205F, U+3000 and U+FEFF.  A character that has
\* no notation of its own in a string here is written by its code point,
\* "U+" and four hexadecimal digits; U+000B, U+00A0, U+1680 and U+FEFF are
\* also taken as the characters themselves (the second line of the set)
WhiteSpace ==
    {" ", "\t", "\n", "\r", "\f",
     "", " ", " ", "﻿",
     "U+000B", "U+00A0", "U+1680", "U+2000", "U+2001", "U+2002",
     "U+2003", "U+2004", "U+2005", "U+2006", "U+2007", "U+2008",
     "U+2009", "U+200A", "U+2028", "U+2029", "U+202F", "U+205F",
     "U+3000", "U+FEFF"}

RECURSIVE trimStart(_)
trimStart(s) ==
    IF s = <<>> THEN <<>>
    ELSE IF Head(s) \in WhiteSpace THEN trimStart(Tail(s)) ELSE s

RECURSIVE trimEnd(_)
trimEnd(s) ==
    IF s = <<>> THEN <<>>
    ELSE IF s[Len(s)] \in WhiteSpace
    THEN trimEnd(SubSeq(s, 1, Len(s) - 1)) ELSE s

\* variant: title used as given, without .trim()
trimNone(s) == s

trim(s) == trimEnd(trimStart(s))

UndefDate == [fmt |-> "undefined", t |-> 0]
NullDate == [fmt |-> "null", t |-> 0]
IsoDate(t) == [fmt |-> "iso", t |-> t]
PgDate(t) == [fmt |-> "pg", t |-> t]

\* JS falsiness of a text field of a request: x || d gives d
falsy(x) == x \in {Undef, Null, ""}

\* the CHECK constraints of the todos table on priority and status; a NULL
\* passes a CHECK
checkOk(row) ==
    /\ row.priority \in {"low", "medium", "high", Null}
    /\ row.status \in {"pending", "in-progress", "completed", Null}

\* JS truthiness of a dueDate/due_date value
truthyDate(d) == d.fmt \notin {"undefined", "null"}

\* what the timestamptz column gives back for a written value
storeDate(d) == IF truthyDate(d) THEN PgDate(d.t) ELSE NullDate

\* new Date(x).toISOString()
toISOString(ms) == IsoDate(ms)

\* new Date(x).getTime()
getTime(d) == d.t

NoTime == -1
NoEvent == 0
NoRefresh == "none"

TickMs == expiryBuffer
T0 == 10 * TickMs

NoTodo ==
    [id |-> 0, user_id |-> NoUser, title |-> <<>>, description |-> Null,
     priority |-> Null, status |-> Null, due_date |-> NullDate,
     calendar_event_id |-> NoEvent, completed_at |-> NoTime]

NoCred == [accessToken |-> 0, refreshToken |-> NoRefresh, expiryDate |-> 0]

(***************************************************************************)
(* Faults, each striking one await.  On the gateway side: "tokSelErr" the  *)
(* calendar_tokens select fails, "refreshReject" Google rejects the        *)
(* refresh, "tokUpdErr" the refreshed token cannot be persisted,           *)
(* "remoteFail" the calendar API call throws.  On the store side: "fetch"  *)
(* the first select fails, "write" the primary insert, update or delete    *)
(* fails, "link" the secondary write fails.                                *)
(***************************************************************************)

Call(kind, u, e, title, start, end) ==
    [kind |-> kind, user |-> u, eventId |-> e, title |-> title,
     start |-> start, end |-> end]

(***************************************************************************)
(* refreshTokenIfNeeded                                                    *)
(***************************************************************************)
\* calendar_tokens is a table: a sequence of rows, in insertion order
TokenRow(u, acc, rt, exp) ==
    [user_id |-> u, access_token |-> acc, refresh_token |-> rt,
     expiry_date |-> exp]

\* .eq('user_id', u): the positions of the matching rows
tokenRows(tk, u) == {i \in 1..Len(tk) : tk[i].user_id = u}

\* variant: the comparison with < in place of <=
isExpiredStrict(td, nw) ==
    td.expiry_date # 0 /\ td.expiry_date < nw + expiryBuffer

isExpired(td, nw) ==
    td.expiry_date # 0 /\ td.expiry_date <= nw + expiryBuffer

(***************************************************************************)
(* The calendar provider: events is the set of [id, owner] that exist.     *)
(* insert hands out the next id; update and delete of an event that does   *)
(* not exist in the caller's calendar are refused (404 / 410), which the   *)
(* client library raises as an error.                                      *)
(***************************************************************************)
eventExists(ev, u, e) == [id |-> e, owner |-> u] \in ev

\* calendar.events.insert / update / delete; f is the fault that strikes the
\* call, ok = FALSE when the call throws
remoteInsert(ev, u, eid, f) ==
    IF f = "remoteFail"
    THEN [ok |-> FALSE, events |-> ev, id |-> NoEvent, used |-> 0,
          gwFault |-> "remoteFail"]
    ELSE [ok |-> TRUE, events |-> ev \cup {[id |-> eid, owner |-> u]},
          id |-> eid, used |-> 1, gwFault |-> "none"]

remoteUpdate(ev, u, e, f) ==
    IF f = "remoteFail"
    THEN [ok |-> FALSE, events |-> ev, gwFault |-> "remoteFail"]
    ELSE IF ~eventExists(ev, u, e)
    THEN [ok |-> FALSE, events |-> ev, gwFault |-> "none"]
    ELSE [ok |-> TRUE, events |-> ev, gwFault |-> "none"]

remoteDelete(ev, u, e, f) ==
    IF f = "remoteFail"
    THEN [ok |-> FALSE, events |-> ev, gwFault |-> "remoteFail"]
    ELSE IF ~eventExists(ev, u, e)
    THEN [ok |-> FALSE, events |-> ev, gwFault |-> "none"]
    ELSE [ok |-> TRUE, events |-> ev \ {[id |-> e, owner |-> u]},
          gwFault |-> "none"]

(***************************************************************************)
(* Requests, responses and the record of the last request handled.         *)
(***************************************************************************)
NoReq ==
    [title |-> UndefTitle, description |-> Undef, dueDate |-> UndefDate,
     priority |-> Undef, status |-> Undef, eventId |-> NoEvent,
     start |-> UndefDate, end |-> UndefDate, filter |-> Undef, limit |-> 0]

\* the camelCase object every todo handler builds
format(t) ==
    [id |-> t.id, userId |-> t.user_id, title |-> t.title,
     description |-> t.description, priority |-> t.priority,
     status |-> t.status, dueDate |-> t.due_date,
     calendarEventId |-> t.calendar_event_id, completedAt |-> t.completed_at]

NoBody == format(NoTodo)

\* what a handler did on the gateway side: the remote calls it made, the sync
\* branch it took, the helper's result (success, error, or that it raised),
\* whether a credential was usable and which refreshTokenIfNeeded returned,
\* and the injected gateway fault it met
NoGw ==
    [calls |-> <<>>, sync |-> "none", ok |-> FALSE, error |-> "",
     threw |-> FALSE, cred |-> "unused", credential |-> NoCred,
     gwFault |-> "none"]

\* op, caller, :id, body, what the handler read first, its gateway side, the
\* store fault it met, and the response (status, todo body, id list,
\* connected flag)
Last(op, u, id, req, pre, g, fault, status, body, list, conn) ==
    [op |-> op, user |-> u, id |-> id, req |-> req, pre |-> pre,
     calls |-> g.calls, sync |-> g.sync, syncOk |-> g.ok,
     syncError |-> g.error, threw |-> g.threw, cred |-> g.cred,
     credential |-> g.credential, gwFault |-> g.gwFault, fault |-> fault,
     status |-> status, body |-> body, list |-> list, connected |-> conn]

NoLast ==
    Last("init", NoUser, 0, NoReq, NoTodo, NoGw, "none", 0, NoBody, <<>>, "absent")

(***************************************************************************)
(* A request in flight.  pc is the await the handler stands at ("idle": no  *)
(* request, "done": answered); the fields of Last are filled in as the      *)
(* handler goes; row is the row its first write returned (data,             *)
(* updatedTodo), eventId the id a helper returned, tokenData and            *)
(* credentials the locals of refreshTokenIfNeeded.                          *)
(***************************************************************************)
NoIssued == [access_token |-> 0, expiry_date |-> 0, refresh_token |-> NoRefresh]

NoToken == TokenRow(NoUser, 0, NoRefresh, 0)

NoRun ==
    [pc |-> "idle", op |-> "init", user |-> NoUser, id |-> 0, req |-> NoReq,
     pre |-> NoTodo, calls |-> <<>>, sync |-> "none", syncOk |-> FALSE,
     syncError |-> "", threw |-> FALSE, cred |-> "unused",
     credential |-> NoCred, gwFault |-> "none", fault |-> "none",
     status |-> 0, body |-> NoBody, list |-> <<>>, connected |-> "absent",
     row |-> NoTodo, eventId |-> NoEvent, tokenData |-> NoToken,
     credentials |-> NoIssued]

\* the request as the router hands it to the handler, standing at its first
\* await
Begin(op, u, id, req, pc) ==
    [NoRun EXCEPT !.pc = pc, !.op = op, !.user = u, !.id = id, !.req = req]

\* the response is sent
Answer(r, status) == [r EXCEPT !.pc = "done", !.status = status]

\* a request that was answered after a single await
Done(l) ==
    [NoRun EXCEPT
       !.pc = "done", !.op = l.op, !.user = l.user, !.id = l.id,
       !.req = l.req, !.pre = l.pre, !.calls = l.calls, !.sync = l.sync,
       !.syncOk = l.syncOk, !.syncError = l.syncError, !.threw = l.threw,
       !.cred = l.cred, !.credential = l.credential, !.gwFault = l.gwFault,
       !.fault = l.fault, !.status = l.status, !.body = l.body,
       !.list = l.list, !.connected = l.connected]

\* what an answered request leaves in last
LastOf(r) ==
    [op |-> r.op, user |-> r.user, id |-> r.id, req |-> r.req, pre |-> r.pre,
     calls |-> r.calls, sync |-> r.sync, syncOk |-> r.syncOk,
     syncError |-> r.syncError, threw |-> r.threw, cred |-> r.cred,
     credential |-> r.credential, gwFault |-> r.gwFault, fault |-> r.fault,
     status |-> r.status, body |-> r.body, list |-> r.list,
     connected |-> r.connected]

\* the effect of one step of a handler, from one await to the next: the
\* store and the provider afterwards, the ids handed out, and the request
Out(td, tk, ev, usedTodo, usedEv, r) ==
    [todos |-> td, tokens |-> tk, events |-> ev, usedTodo |-> usedTodo,
     usedEv |-> usedEv, run |-> r]

\* a step that writes nothing
Same(r) == Out(todos, tokens, events, 0, 0, r)

\* a response after a single await that touched neither the store nor the
\* gateway
Reject(op, u, id, req, pre, fault, status) ==
    Same(Done(Last(op, u, id, req, pre, NoGw, fault, status, NoBody, <<>>,
                   "absent")))

\* what the store or Google answers at one await: the fault that strikes,
\* and for the tokens Google issues the access token, its lifetime in ticks
\* and the refresh token sent with it
Ans(f) == [f |-> f, acc |-> 0, life |-> 0, rt |-> NoRefresh]

Issue(acc, life, rt) == [f |-> "none", acc |-> acc, life |-> life, rt |-> rt]

(***************************************************************************)
(* refreshTokenIfNeeded, step by step: the select ("token"), Google's       *)
(* refreshAccessToken ("refresh"), the update ("store").  It has returned   *)
(* when pc is "credential"; credential is what it returned (NoCred = null). *)
(***************************************************************************)
credentialOfRow(row) ==
    [accessToken |-> row.access_token, refreshToken |-> row.refresh_token,
     expiryDate |-> row.expiry_date]

\* variant: the refresh token column is always written, with null when
\* Google sent none
applyUpdateDataClearing(row, credentials) ==
    [row EXCEPT !.access_token = credentials.access_token,
                !.expiry_date = credentials.expiry_date,
                !.refresh_token = credentials.refresh_token]

\* .update(updateData): access token and expiry always, the refresh token
\* only when Google sent one
applyUpdateData(row, credentials) ==
    [row EXCEPT !.access_token = credentials.access_token,
                !.expiry_date = credentials.expiry_date,
                !.refresh_token =
                    IF credentials.refresh_token # NoRefresh
                    THEN credentials.refresh_token ELSE @]

Return(r, cred, fault) ==
    [r EXCEPT !.pc = "credential", !.credential = cred,
              !.gwFault = IF fault # "none" THEN fault ELSE @]

refreshTokenIfNeeded(r, in) ==
    LET rows == tokenRows(tokens, r.user) IN
    CASE r.pc = "token" ->
           IF in.f = "tokSelErr" THEN Same(Return(r, NoCred, in.f))
           ELSE IF Cardinality(rows) # 1 THEN Same(Return(r, NoCred, "none"))
           ELSE LET tokenData == tokens[CHOOSE i \in rows : TRUE] IN
                IF ~isExpired(tokenData, now)
                THEN Same(Return(r, credentialOfRow(tokenData), "none"))
                ELSE IF tokenData.refresh_token = NoRefresh
                THEN Same(Return(r, NoCred, "none"))
                ELSE Same([r EXCEPT !.pc = "refresh", !.tokenData = tokenData])
      [] r.pc = "refresh" ->
           LET rc == Call("refresh", r.user, NoEvent, <<>>, NullDate, NullDate)
               x == [r EXCEPT !.calls = Append(@, rc)]
           IN IF in.f = "refreshReject" THEN Same(Return(x, NoCred, in.f))
              ELSE Same([x EXCEPT
                           !.pc = "store",
                           !.credentials =
                               [access_token |-> in.acc,
                                expiry_date |-> now + in.life * TickMs,
                                refresh_token |-> in.rt]])
      [] OTHER ->
           LET written == [i \in 1..Len(tokens) |->
                             IF i \in rows
                             THEN applyUpdateData(tokens[i], r.credentials)
                             ELSE tokens[i]]
           IN IF in.f = "tokUpdErr" THEN Same(Return(r, NoCred, in.f))
              ELSE Out(todos, written, events, 0, 0,
                       IF Cardinality(rows) # 1 THEN Return(r, NoCred, "none")
                       ELSE Return(r, credentialOfRow(
                                         written[CHOOSE i \in rows : TRUE]),
                                   "none"))

(***************************************************************************)
(* Gateway helpers, step by step.  While pc is not "remote" the helper is   *)
(* inside refreshTokenIfNeeded; at "remote" it awaits the calendar call.    *)
(* It has returned when pc is "returned": syncOk, eventId and syncError are *)
(* success, eventId and error as the code returns them; threw = the helper  *)
(* raised instead of returning; cred = whether a credential was usable.     *)
(***************************************************************************)
\* variant: a missing credential reported like any other failure
notConnectedUnnamed(r) ==
    [r EXCEPT !.pc = "returned", !.syncOk = FALSE, !.eventId = NoEvent,
              !.syncError = "error.message", !.cred = "missing"]

notConnected(r) ==
    [r EXCEPT !.pc = "returned", !.syncOk = FALSE, !.eventId = NoEvent,
              !.syncError = "Calendar not connected", !.cred = "missing"]

\* const tokenData = await refreshTokenIfNeeded(userId);
\* if (!tokenData) return {success: false, error: 'Calendar not connected'}
withCredential(r, in) ==
    LET o == refreshTokenIfNeeded(r, in) IN
    IF o.run.pc # "credential" THEN o
    ELSE IF o.run.credential = NoCred THEN [o EXCEPT !.run = notConnected(o.run)]
    ELSE [o EXCEPT !.run.pc = "remote", !.run.cred = "ok"]

\* what a helper returns after its calendar call
returned(r, c, x, eventId, threw) ==
    [r EXCEPT !.pc = "returned", !.calls = Append(@, c), !.syncOk = x.ok,
              !.eventId = eventId,
              !.syncError = IF x.ok THEN "" ELSE "error.message",
              !.threw = threw, !.gwFault = x.gwFault]

\* variant: the helper without its try/catch, so that a failed remote insert
\* is raised to the caller
createCalendarEventHelperRaising(r, in, title, start, end) ==
    IF r.pc # "remote" THEN withCredential(r, in)
    ELSE LET c == Call("insert", r.user, NoEvent, title, start, end)
             x == remoteInsert(events, r.user, nextEventId, in.f)
         IN Out(todos, tokens, x.events, 0, x.used,
                returned(r, c, x, x.id, ~x.ok))

createCalendarEventHelper(r, in, title, start, end) ==
    IF r.pc # "remote" THEN withCredential(r, in)
    ELSE LET c == Call("insert", r.user, NoEvent, title, start, end)
             x == remoteInsert(events, r.user, nextEventId, in.f)
         IN Out(todos, tokens, x.events, 0, x.used,
                returned(r, c, x, x.id, FALSE))

\* variant: the helper without its try/catch, so that a failed remote update
\* is raised to the caller
updateCalendarEventHelperRaising(r, in, e, title, start, end) ==
    IF r.pc # "remote" THEN withCredential(r, in)
    ELSE LET c == Call("update", r.user, e, title, start, end)
             x == remoteUpdate(events, r.user, e, in.f)
         IN Out(todos, tokens, x.events, 0, 0,
                returned(r, c, x, NoEvent, ~x.ok))

updateCalendarEventHelper(r, in, e, title, start, end) ==
    IF r.pc # "remote" THEN withCredential(r, in)
    ELSE LET c == Call("update", r.user, e, title, start, end)
             x == remoteUpdate(events, r.user, e, in.f)
         IN Out(todos, tokens, x.events, 0, 0,
                returned(r, c, x, NoEvent, FALSE))

\* variant: the helper without its try/catch, so that a failed remote delete
\* is raised to the caller
deleteCalendarEventHelperRaising(r, in, e) ==
    IF r.pc # "remote" THEN withCredential(r, in)
    ELSE LET c == Call("delete", r.user, e, <<>>, NullDate, NullDate)
             x == remoteDelete(events, r.user, e, in.f)
         IN Out(todos, tokens, x.events, 0, 0,
                returned(r, c, x, NoEvent, ~x.ok))

deleteCalendarEventHelper(r, in, e) ==
    IF r.pc # "remote" THEN withCredential(r, in)
    ELSE LET c == Call("delete", r.user, e, <<>>, NullDate, NullDate)
             x == remoteDelete(events, r.user, e, in.f)
         IN Out(todos, tokens, x.events, 0, 0,
                returned(r, c, x, NoEvent, FALSE))

(***************************************************************************)
(* todoController.js.  A handler takes the request r at the await it stands *)
(* at and the answer in to that await, and runs to its next await or to its *)
(* response.                                                                *)
(***************************************************************************)
HelperPcs == {"token", "refresh", "store", "remote"}

createTodo(r, in) ==
    LET u == r.user
        b == r.req
        startDate == getTime(b.dueDate)
        endDate == startDate + HourMs
        created(x, calendarEventId) ==
            [Answer(x, 201) EXCEPT
               !.body = [format(x.row) EXCEPT !.calendarEventId = calendarEventId]]
    IN
    CASE r.pc = "insert" ->
           IF b.title = UndefTitle \/ b.title = <<>> \/ trim(b.title) = <<>>
           THEN Same(Answer(r, 400))
           ELSE
           LET data ==
                   [id |-> nextTodoId, user_id |-> u, title |-> trim(b.title),
                    description |-> IF falsy(b.description) THEN Null
                                    ELSE b.description,
                    priority |-> IF falsy(b.priority)
                                 THEN "medium" ELSE b.priority,
                    status |-> IF falsy(b.status)
                               THEN "pending" ELSE b.status,
                    due_date |-> storeDate(b.dueDate),
                    calendar_event_id |-> NoEvent, completed_at |-> NoTime]
               x == [r EXCEPT !.id = data.id, !.row = data]
           IN IF in.f = "write" \/ ~checkOk(data)
              THEN Same(Answer([r EXCEPT !.fault = "write"], 500))
              ELSE
              Out((nextTodoId :> data) @@ todos, tokens, events, 1, 0,
                  IF truthyDate(b.dueDate)
                  THEN [x EXCEPT !.pc = "token", !.sync = "create"]
                  ELSE created(x, data.calendar_event_id))
      [] r.pc \in HelperPcs ->
           LET o == createCalendarEventHelper(r, in, trim(b.title),
                        toISOString(startDate), toISOString(endDate))
           IN IF o.run.pc # "returned" THEN o
              ELSE IF o.run.threw THEN [o EXCEPT !.run = Answer(o.run, 500)]
              ELSE IF o.run.syncOk THEN [o EXCEPT !.run.pc = "link"]
              ELSE [o EXCEPT !.run = created(o.run, r.row.calendar_event_id)]
      [] OTHER ->
           LET updateError == in.f = "link" \/ r.row.id \notin DOMAIN todos IN
           IF updateError
           THEN Same(created([r EXCEPT !.fault = in.f], r.row.calendar_event_id))
           ELSE Out([todos EXCEPT ![r.row.id].calendar_event_id = r.eventId],
                    tokens, events, 0, 0, created(r, r.eventId))

\* variant: the row is read by id alone, without .eq("user_id", ...)
getTodoByIdAnyOwner(u, id, f) ==
    IF f = "fetch" \/ id \notin DOMAIN todos
    THEN Reject("getTodoById", u, id, NoReq, NoTodo, f, 404)
    ELSE Same(Done(Last("getTodoById", u, id, NoReq, todos[id], NoGw, "none",
                        200, format(todos[id]), <<>>, "absent")))

getTodoById(u, id, f) ==
    IF f = "fetch" \/ id \notin DOMAIN todos
    THEN Reject("getTodoById", u, id, NoReq, NoTodo, f, 404)
    ELSE IF todos[id].user_id # u
    THEN Reject("getTodoById", u, id, NoReq, NoTodo, "none", 404)
    ELSE Same(Done(Last("getTodoById", u, id, NoReq, todos[id], NoGw, "none",
                        200, format(todos[id]), <<>>, "absent")))

\* updateData merged into the stored row, as .update().select().single() returns it
applyPatch(t, b) ==
    [t EXCEPT
       !.title = IF b.title # UndefTitle THEN trim(b.title) ELSE @,
       !.description = IF b.description # Undef THEN b.description ELSE @,
       !.priority = IF b.priority # Undef THEN b.priority ELSE @,
       !.status = IF b.status # Undef THEN b.status ELSE @,
       !.due_date = IF b.dueDate # UndefDate THEN storeDate(b.dueDate) ELSE @]

\* variant: a patch with only a status counts as empty
emptyPatchIgnoringStatus(b) ==
    /\ b.title = UndefTitle
    /\ b.description = Undef
    /\ b.priority = Undef
    /\ b.dueDate = UndefDate

emptyPatch(b) ==
    /\ b.title = UndefTitle
    /\ b.description = Undef
    /\ b.priority = Undef
    /\ b.status = Undef
    /\ b.dueDate = UndefDate

\* variant: the comparison without its "!== undefined" guard
titleChangedUnguarded(b, existingTodo) ==
    b.title # existingTodo.title

titleChanged(b, existingTodo) ==
    b.title # UndefTitle /\ b.title # existingTodo.title

\* variant: the comparison without its "!== undefined" guard
dueDateChangedUnguarded(b, existingTodo) ==
    b.dueDate # existingTodo.due_date

dueDateChanged(b, existingTodo) ==
    b.dueDate # UndefDate /\ b.dueDate # existingTodo.due_date

\* variant: a linked todo whose due date is cleared keeps its event
syncCaseKeepEvent(b, existingTodo, updatedTodo) ==
    IF ~(titleChanged(b, existingTodo) \/ dueDateChanged(b, existingTodo))
    THEN "none"
    ELSE IF existingTodo.calendar_event_id # NoEvent /\ truthyDate(updatedTodo.due_date)
    THEN "update"
    ELSE IF existingTodo.calendar_event_id = NoEvent /\ truthyDate(updatedTodo.due_date)
    THEN "create"
    ELSE "none"

\* variant: a changed todo with a due date always gets a new event
syncCaseRecreate(b, existingTodo, updatedTodo) ==
    IF ~(titleChanged(b, existingTodo) \/ dueDateChanged(b, existingTodo))
    THEN "none"
    ELSE IF truthyDate(updatedTodo.due_date)
    THEN "create"
    ELSE IF existingTodo.calendar_event_id # NoEvent /\ ~truthyDate(updatedTodo.due_date)
    THEN "delete"
    ELSE "none"

\* variant: an event is created only when the patch changes the due date
syncCaseNewDueDateOnly(b, existingTodo, updatedTodo) ==
    IF ~(titleChanged(b, existingTodo) \/ dueDateChanged(b, existingTodo))
    THEN "none"
    ELSE IF existingTodo.calendar_event_id # NoEvent /\ truthyDate(updatedTodo.due_date)
    THEN "update"
    ELSE IF /\ existingTodo.calendar_event_id = NoEvent
            /\ truthyDate(updatedTodo.due_date)
            /\ dueDateChanged(b, existingTodo)
    THEN "create"
    ELSE IF existingTodo.calendar_event_id # NoEvent /\ ~truthyDate(updatedTodo.due_date)
    THEN "delete"
    ELSE "none"

\* which calendar branch updateTodo takes
syncCase(b, existingTodo, updatedTodo) ==
    IF ~(titleChanged(b, existingTodo) \/ dueDateChanged(b, existingTodo))
    THEN "none"
    ELSE IF existingTodo.calendar_event_id # NoEvent /\ truthyDate(updatedTodo.due_date)
    THEN "update"
    ELSE IF existingTodo.calendar_event_id = NoEvent /\ truthyDate(updatedTodo.due_date)
    THEN "create"
    ELSE IF existingTodo.calendar_event_id # NoEvent /\ ~truthyDate(updatedTodo.due_date)
    THEN "delete"
    ELSE "none"

updateTodo(r, in) ==
    LET u == r.user
        id == r.id
        b == r.req
        existingTodo == r.pre
        updatedTodo == r.row
        startDate == getTime(updatedTodo.due_date)
        endDate == startDate + HourMs
        updated(x, calendarEventId) ==
            [Answer(x, 200) EXCEPT
               !.body = [format(x.row) EXCEPT !.calendarEventId = calendarEventId]]
    IN
    CASE r.pc = "select" ->
           IF in.f = "fetch" \/ id \notin DOMAIN todos
           THEN Same(Answer([r EXCEPT !.fault = in.f], 404))
           ELSE IF todos[id].user_id # u
           THEN Same(Answer([r EXCEPT !.pre = todos[id]], 401))
           ELSE IF emptyPatch(b)
           THEN Same(Answer([r EXCEPT !.pre = todos[id]], 400))
           ELSE Same([r EXCEPT !.pre = todos[id], !.pc = "update"])
      [] r.pc = "update" ->
           IF in.f = "write" \/ id \notin DOMAIN todos
           THEN Same(Answer([r EXCEPT !.fault = in.f], 500))
           ELSE IF ~checkOk(applyPatch(todos[id], b))
           THEN Same(Answer([r EXCEPT !.fault = "write"], 500))
           ELSE
           LET written == applyPatch(todos[id], b)
               case == syncCase(b, existingTodo, written)
               x == [r EXCEPT !.row = written, !.sync = case]
           IN Out([todos EXCEPT ![id] = written], tokens, events, 0, 0,
                  IF case = "none"
                  THEN updated(x, written.calendar_event_id)
                  ELSE [x EXCEPT !.pc = "token"])
      [] r.pc \in HelperPcs ->
           LET o == CASE r.sync = "update" ->
                           updateCalendarEventHelper(r, in,
                               existingTodo.calendar_event_id, updatedTodo.title,
                               toISOString(startDate), toISOString(endDate))
                      [] r.sync = "create" ->
                           createCalendarEventHelper(r, in, updatedTodo.title,
                               toISOString(startDate), toISOString(endDate))
                      [] OTHER ->
                           deleteCalendarEventHelper(r, in,
                               existingTodo.calendar_event_id)
           IN IF o.run.pc # "returned" THEN o
              ELSE IF o.run.threw THEN [o EXCEPT !.run = Answer(o.run, 500)]
              ELSE IF o.run.syncOk /\ r.sync \in {"create", "delete"}
              THEN [o EXCEPT !.run.pc = "link"]
              ELSE [o EXCEPT !.run = updated(o.run, updatedTodo.calendar_event_id)]
      [] OTHER ->
           LET x == [r EXCEPT !.fault = in.f] IN
           IF r.sync = "create"
           THEN LET reUpdateError ==
                        in.f = "link" \/ updatedTodo.id \notin DOMAIN todos
                IN IF reUpdateError
                   THEN Same(updated(x, updatedTodo.calendar_event_id))
                   ELSE Out([todos EXCEPT
                                ![updatedTodo.id].calendar_event_id = r.eventId],
                            tokens, events, 0, 0, updated(x, r.eventId))
           ELSE IF in.f = "link" \/ updatedTodo.id \notin DOMAIN todos
           THEN Same(updated(x, NoEvent))
           ELSE Out([todos EXCEPT ![updatedTodo.id].calendar_event_id = NoEvent],
                    tokens, events, 0, 0, updated(x, NoEvent))

deleteTodo(r, in) ==
    LET u == r.user
        id == r.id
        existingTodo == r.pre
    IN
    CASE r.pc = "select" ->
           IF in.f = "fetch" \/ id \notin DOMAIN todos
           THEN Same(Answer([r EXCEPT !.fault = in.f], 404))
           ELSE IF todos[id].user_id # u
           THEN Same(Answer([r EXCEPT !.pre = todos[id]], 401))
           ELSE IF todos[id].calendar_event_id # NoEvent
           THEN Same([r EXCEPT !.pre = todos[id], !.pc = "token",
                               !.sync = "delete"])
           ELSE Same([r EXCEPT !.pre = todos[id], !.pc = "delete"])
      [] r.pc \in HelperPcs ->
           LET o == deleteCalendarEventHelper(r, in,
                        existingTodo.calendar_event_id)
           IN IF o.run.pc # "returned" THEN o
              ELSE IF o.run.threw THEN [o EXCEPT !.run = Answer(o.run, 500)]
              ELSE [o EXCEPT !.run.pc = "delete"]
      [] OTHER ->
           LET deleteError == in.f = "write" IN
           IF deleteError THEN Same(Answer([r EXCEPT !.fault = "write"], 500))
           ELSE Out([i \in DOMAIN todos \ {id} |-> todos[i]], tokens, events,
                    0, 0, Answer(r, 200))

\* variant: toggling back to pending leaves completed_at as it was
completeTodoKeepingStamp(r, in) ==
    LET u == r.user
        id == r.id
        existingTodo == r.pre
    IN
    IF r.pc = "select"
    THEN IF in.f = "fetch" \/ id \notin DOMAIN todos
         THEN Same(Answer([r EXCEPT !.fault = in.f], 404))
         ELSE IF todos[id].user_id # u
         THEN Same(Answer([r EXCEPT !.pre = todos[id]], 401))
         ELSE Same([r EXCEPT !.pre = todos[id], !.pc = "update"])
    ELSE IF in.f = "write" \/ id \notin DOMAIN todos
    THEN Same(Answer([r EXCEPT !.fault = in.f], 500))
    ELSE
    LET newStatus == IF existingTodo.status = "completed" THEN "pending"
                     ELSE "completed"
        completedAt == IF newStatus = "completed" THEN now
                       ELSE existingTodo.completed_at
        updatedTodo == [todos[id] EXCEPT !.status = newStatus,
                                         !.completed_at = completedAt]
    IN Out([todos EXCEPT ![id] = updatedTodo], tokens, events, 0, 0,
           [Answer(r, 200) EXCEPT !.row = updatedTodo,
                                  !.body = format(updatedTodo)])

completeTodo(r, in) ==
    LET u == r.user
        id == r.id
        existingTodo == r.pre
    IN
    IF r.pc = "select"
    THEN IF in.f = "fetch" \/ id \notin DOMAIN todos
         THEN Same(Answer([r EXCEPT !.fault = in.f], 404))
         ELSE IF todos[id].user_id # u
         THEN Same(Answer([r EXCEPT !.pre = todos[id]], 401))
         ELSE Same([r EXCEPT !.pre = todos[id], !.pc = "update"])
    ELSE IF in.f = "write" \/ id \notin DOMAIN todos
    THEN Same(Answer([r EXCEPT !.fault = in.f], 500))
    ELSE
    LET newStatus == IF existingTodo.status = "completed" THEN "pending"
                     ELSE "completed"
        completedAt == IF newStatus = "completed" THEN now ELSE NoTime
        updatedTodo == [todos[id] EXCEPT !.status = newStatus,
                                         !.completed_at = completedAt]
    IN Out([todos EXCEPT ![id] = updatedTodo], tokens, events, 0, 0,
           [Answer(r, 200) EXCEPT !.row = updatedTodo,
                                  !.body = format(updatedTodo)])

linkTodoToCalendar(r, in) ==
    LET u == r.user
        id == r.id
        b == r.req
    IN
    IF r.pc = "select"
    THEN IF b.eventId = NoEvent THEN Same(Answer(r, 400))
         ELSE IF in.f = "fetch" \/ id \notin DOMAIN todos
         THEN Same(Answer([r EXCEPT !.fault = in.f], 404))
         ELSE IF todos[id].user_id # u
         THEN Same(Answer([r EXCEPT !.pre = todos[id]], 401))
         ELSE Same([r EXCEPT !.pre = todos[id], !.pc = "update"])
    ELSE IF in.f = "write" \/ id \notin DOMAIN todos
    THEN Same(Answer([r EXCEPT !.fault = in.f], 500))
    ELSE
    LET updatedTodo == [todos[id] EXCEPT !.calendar_event_id = b.eventId]
    IN Out([todos EXCEPT ![id] = updatedTodo], tokens, events, 0, 0,
           [Answer(r, 200) EXCEPT !.row = updatedTodo,
                                  !.body = format(updatedTodo)])

(***************************************************************************)
(* Listing.  ORDER BY due_date ASC NULLS LAST, priority DESC, created_at   *)
(* DESC; priority is a TEXT column, so DESC is the descending order of the *)
(* strings, and the request names no place for NULL on that key, so the    *)
(* database puts a NULL priority first, its default for a descending key;  *)
(* ids are handed out in creation order.                                   *)
(***************************************************************************)
\* rank of a priority in ascending order: high < low < medium < NULL
textRank(p) ==
    CASE p = "high" -> 1 [] p = "low" -> 2 [] p = "medium" -> 3
      [] p = Null -> 4 [] OTHER -> 0

\* a comes before b in getTodos' order
before(a, b) ==
    IF a.due_date # b.due_date
    THEN IF ~truthyDate(a.due_date) THEN FALSE
         ELSE IF ~truthyDate(b.due_date) THEN TRUE
         ELSE a.due_date.t < b.due_date.t
    ELSE IF a.priority # b.priority
    THEN textRank(a.priority) > textRank(b.priority)
    ELSE a.id > b.id

RECURSIVE orderIds(_)
orderIds(S) ==
    IF S = {} THEN <<>>
    ELSE LET first == CHOOSE i \in S :
                          \A j \in S \ {i} : before(todos[i], todos[j])
         IN <<first>> \o orderIds(S \ {first})

getTodos(u, b, f) ==
    IF f = "fetch"
    THEN Reject("getTodos", u, 0, b, NoTodo, "fetch", 500)
    ELSE
    LET rows == {i \in DOMAIN todos :
                    /\ todos[i].user_id = u
                    /\ (~falsy(b.filter) => todos[i].status = b.filter)}
    IN Same(Done(Last("getTodos", u, 0, b, NoTodo, NoGw, "none",
                      200, NoBody, orderIds(rows), "absent")))

\* parseInt(req.query.limit) || 2
parseLimit(l) == IF l = 0 THEN DefaultLimit ELSE l

\* status <> 'completed' is not true of a NULL status
upcomingRows(u) ==
    {i \in DOMAIN todos :
        /\ todos[i].user_id = u
        /\ todos[i].status # Null
        /\ todos[i].status # "completed"
        /\ truthyDate(todos[i].due_date)
        /\ todos[i].due_date.t >= now}

\* the ids in ascending due-date order; rows with equal due dates come in
\* whatever order the database returns them
upcomingOrders(S) ==
    {s \in [1..Cardinality(S) -> S] :
        /\ \A i, j \in 1..Cardinality(S) : i # j => s[i] # s[j]
        /\ \A i, j \in 1..Cardinality(S) :
              i < j => todos[s[i]].due_date.t <= todos[s[j]].due_date.t}

firstN(s, n) == IF Len(s) <= n THEN s ELSE SubSeq(s, 1, n)

getUpcomingTodos(u, b, f, order) ==
    IF f = "fetch"
    THEN Reject("getUpcomingTodos", u, 0, b, NoTodo, "fetch", 500)
    ELSE Same(Done(Last("getUpcomingTodos", u, 0, b, NoTodo, NoGw,
                        "none", 200, NoBody, firstN(order, parseLimit(b.limit)),
                        "absent")))

(***************************************************************************)
(* calenderController.js                                                   *)
(***************************************************************************)
\* variant: the row is inserted without ON CONFLICT (user_id)
upsertInsertOnly(tk, row) == Append(tk, row)

\* .upsert([row], {onConflict: 'user_id'}): the row with that user_id is
\* replaced, or the row is added when there is none
upsert(tk, row) ==
    IF tokenRows(tk, row.user_id) # {}
    THEN [i \in 1..Len(tk) |->
            IF tk[i].user_id = row.user_id THEN row ELSE tk[i]]
    ELSE Append(tk, row)

\* GET /api/calendar/auth/google/callback?code=..&state=<user id>; the
\* request's user is the query parameter state.  The awaits are getToken,
\* where Google issues the tokens, and the upsert.
handleGoogleCallback(r, code, in) ==
    LET state == r.user
        fail(x) == [Answer(x, 302) EXCEPT !.connected = "error"]
    IN
    IF r.pc = "getToken"
    THEN IF ~code THEN Same(fail(r))
         ELSE IF in.f = "remoteFail" THEN Same(fail(r))
         ELSE Same([r EXCEPT
                      !.pc = "upsert",
                      !.credentials =
                          [access_token |-> in.acc,
                           expiry_date |-> now + in.life * TickMs,
                           refresh_token |-> in.rt]])
    ELSE IF in.f = "write" THEN Same(fail([r EXCEPT !.fault = "write"]))
    ELSE LET row == TokenRow(state, r.credentials.access_token,
                             r.credentials.refresh_token,
                             r.credentials.expiry_date)
         IN Out(todos, upsert(tokens, row), events, 0, 0,
                [Answer(r, 302) EXCEPT !.connected = "connected"])

disconnectCalendar(u, f) ==
    IF f = "write"
    THEN Reject("disconnectCalendar", u, 0, NoReq, NoTodo, "write", 500)
    ELSE Out(todos,
             LET others(row) == row.user_id # u IN SelectSeq(tokens, others),
             events, 0, 0,
             Done(Last("disconnectCalendar", u, 0, NoReq, NoTodo, NoGw, "none",
                       200, NoBody, <<>>, "absent")))

\* variant: a missing credential answered like a failed calendar call
needsReconnectUnchecked(r) ==
    [Answer(r, 500) EXCEPT !.cred = "missing"]

\* the 401 {connected: false, needsReconnect: true} answer
needsReconnect(r) ==
    [Answer(r, 401) EXCEPT !.cred = "missing", !.connected = "false"]

\* const tokenData = await refreshTokenIfNeeded(req.user.id);
\* if (!tokenData) return res.status(401)...
connected(r, in) ==
    LET o == refreshTokenIfNeeded(r, in) IN
    IF o.run.pc # "credential" THEN o
    ELSE IF o.run.credential = NoCred THEN [o EXCEPT !.run = needsReconnect(o.run)]
    ELSE [o EXCEPT !.run.pc = "remote", !.run.cred = "ok"]

\* the 500 answer of a calendar endpoint whose calendar call threw
calendarError(r, c, gwFault) ==
    [Answer(r, 500) EXCEPT !.calls = Append(@, c), !.gwFault = gwFault]

\* a calendar endpoint whose calendar call went through
calendarOk(r, c) ==
    [r EXCEPT !.calls = Append(@, c), !.syncOk = TRUE, !.connected = "true"]

getCalendarEvents(r, in) ==
    LET c == Call("list", r.user, NoEvent, <<>>, NullDate, NullDate) IN
    IF r.pc # "remote" THEN connected(r, in)
    ELSE IF in.f = "remoteFail" THEN Same(calendarError(r, c, "remoteFail"))
    ELSE Same(Answer(calendarOk(r, c), 200))

\* variant: the todo is inserted without its calendar_event_id
addEventTodoUnlinked(r, in) ==
    LET todoError == in.f = "link"
        newTodo ==
            [id |-> nextTodoId, user_id |-> r.user, title |-> r.req.title,
             description |-> Null, priority |-> "medium", status |-> "pending",
             due_date |-> storeDate(r.req.start),
             calendar_event_id |-> NoEvent, completed_at |-> NoTime]
    IN IF todoError THEN Same(Answer([r EXCEPT !.fault = "link"], 200))
       ELSE Out((nextTodoId :> newTodo) @@ todos, tokens, events, 1, 0,
                Answer(r, 200))

\* variant: a failed todo insert fails the request
addEventTodoStrict(r, in) ==
    LET todoError == in.f = "link"
        newTodo ==
            [id |-> nextTodoId, user_id |-> r.user, title |-> r.req.title,
             description |-> Null, priority |-> "medium", status |-> "pending",
             due_date |-> storeDate(r.req.start),
             calendar_event_id |-> r.eventId, completed_at |-> NoTime]
    IN IF todoError
       THEN Same([Answer([r EXCEPT !.fault = "link"], 500) EXCEPT
                    !.syncOk = FALSE, !.connected = "absent"])
       ELSE Out((nextTodoId :> newTodo) @@ todos, tokens, events, 1, 0,
                Answer(r, 200))

\* the inner try of addEvent: the todo for the event just created, and the
\* response
addEventTodo(r, in) ==
    LET todoError == in.f = "link"
        newTodo ==
            [id |-> nextTodoId, user_id |-> r.user, title |-> r.req.title,
             description |-> Null, priority |-> "medium", status |-> "pending",
             due_date |-> storeDate(r.req.start),
             calendar_event_id |-> r.eventId, completed_at |-> NoTime]
    IN IF todoError THEN Same(Answer([r EXCEPT !.fault = "link"], 200))
       ELSE Out((nextTodoId :> newTodo) @@ todos, tokens, events, 1, 0,
                Answer(r, 200))

addEvent(r, in) ==
    LET b == r.req
        c == Call("insert", r.user, NoEvent, b.title, b.start, b.end)
        x == remoteInsert(events, r.user, nextEventId, in.f)
    IN
    CASE r.pc \in {"token", "refresh", "store"} -> connected(r, in)
      [] r.pc = "remote" ->
           IF ~x.ok THEN Same(calendarError(r, c, x.gwFault))
           ELSE Out(todos, tokens, x.events, 0, 1,
                    [calendarOk(r, c) EXCEPT !.pc = "link", !.id = x.id,
                                             !.eventId = x.id])
      [] OTHER -> addEventTodo(r, in)

\* .eq('calendar_event_id', eventId).eq('user_id', u).single(): the row when
\* exactly one matches, an error otherwise
\* variant: the lookup by calendar_event_id alone, without .eq('user_id', ...)
linkedRowsAnyOwner(u, e) ==
    {i \in DOMAIN todos : todos[i].calendar_event_id = e}

linkedRows(u, e) ==
    {i \in DOMAIN todos : todos[i].calendar_event_id = e /\ todos[i].user_id = u}

single(S) == IF Cardinality(S) = 1 THEN CHOOSE i \in S : TRUE ELSE 0

\* the select of the linked todo in updateEvent and deleteEvent
findLinked(r, in) ==
    LET linkedTodo == IF in.f = "fetch" THEN 0
                      ELSE single(linkedRows(r.user, r.req.eventId))
        x == [r EXCEPT !.fault = in.f]
    IN IF linkedTodo = 0 THEN Same(Answer(x, 200))
       ELSE Same([x EXCEPT !.pc = "link", !.id = linkedTodo,
                           !.pre = todos[linkedTodo]])

updateEvent(r, in) ==
    LET b == r.req
        c == Call("update", r.user, b.eventId, b.title, b.start, b.end)
        x == remoteUpdate(events, r.user, b.eventId, in.f)
        linkedTodo == r.id
        updateError == in.f = "link"
    IN
    CASE r.pc \in {"token", "refresh", "store"} -> connected(r, in)
      [] r.pc = "remote" ->
           IF ~x.ok THEN Same(calendarError(r, c, x.gwFault))
           ELSE Out(todos, tokens, x.events, 0, 0,
                    [calendarOk(r, c) EXCEPT !.pc = "find"])
      [] r.pc = "find" -> findLinked(r, in)
      [] OTHER ->
           IF updateError THEN Same(Answer([r EXCEPT !.fault = "link"], 200))
           ELSE IF linkedTodo \notin DOMAIN todos THEN Same(Answer(r, 200))
           ELSE Out([todos EXCEPT ![linkedTodo] =
                        [@ EXCEPT
                           !.title = IF b.title # UndefTitle THEN b.title ELSE @,
                           !.due_date = IF b.start # UndefDate
                                        THEN storeDate(b.start) ELSE @]],
                    tokens, events, 0, 0, Answer(r, 200))

deleteEvent(r, in) ==
    LET b == r.req
        c == Call("delete", r.user, b.eventId, <<>>, NullDate, NullDate)
        x == remoteDelete(events, r.user, b.eventId, in.f)
        linkedTodo == r.id
        deleteError == in.f = "link"
    IN
    CASE r.pc \in {"token", "refresh", "store"} -> connected(r, in)
      [] r.pc = "remote" ->
           IF ~x.ok THEN Same(calendarError(r, c, x.gwFault))
           ELSE Out(todos, tokens, x.events, 0, 0,
                    [calendarOk(r, c) EXCEPT !.pc = "find"])
      [] r.pc = "find" -> findLinked(r, in)
      [] OTHER ->
           IF deleteError THEN Same(Answer([r EXCEPT !.fault = "link"], 200))
           ELSE Out([i \in DOMAIN todos \ {linkedTodo} |-> todos[i]],
                    tokens, events, 0, 0, Answer(r, 200))

\* the router: the handler of the request r
handle(r, in) ==
    CASE r.op = "createTodo" -> createTodo(r, in)
      [] r.op = "updateTodo" -> updateTodo(r, in)
      [] r.op = "deleteTodo" -> deleteTodo(r, in)
      [] r.op = "completeTodo" -> completeTodo(r, in)
      [] r.op = "linkTodoToCalendar" -> linkTodoToCalendar(r, in)
      [] r.op = "handleGoogleCallback" -> handleGoogleCallback(r, TRUE, in)
      [] r.op = "getCalendarEvents" -> getCalendarEvents(r, in)
      [] r.op = "addEvent" -> addEvent(r, in)
      [] r.op = "updateEvent" -> updateEvent(r, in)
      [] OTHER -> deleteEvent(r, in)

(***************************************************************************)
(* Inputs                                                                  *)
(***************************************************************************)
D1 == T0 + 2 * HourMs
D2 == T0

\* :id of a request: a stored todo, or an id no todo has
TodoIds == (DOMAIN todos) \cup {nextTodoId}
EventIds == 0..(MaxEvents + 1)

\* the access token Google issues next: one that no stored credential and no
\* request in flight holds
freshToken ==
    LET held == {tokens[i].access_token : i \in 1..Len(tokens)}
                \cup {runs[p].credentials.access_token : p \in DOMAIN runs}
    IN 1 + (CHOOSE m \in held \cup {0} : \A k \in held : k <= m)

\* the answers the request r can get at the await it stands at: the await
\* succeeds or the fault of its kind strikes; the access token Google issues
\* lives 12 ticks or 1 tick (inside the expiry buffer), and comes with or
\* without a refresh token
Answers(r) ==
    CASE r.pc = "token" -> {Ans("none"), Ans("tokSelErr")}
      [] r.pc = "refresh" ->
           {Ans("refreshReject")}
           \cup {Issue(freshToken, 12, NoRefresh), Issue(freshToken, 12, "r2"),
                 Issue(freshToken, 1, "r2")}
      [] r.pc = "store" -> {Ans("none"), Ans("tokUpdErr")}
      [] r.pc = "remote" -> {Ans("none"), Ans("remoteFail")}
      [] r.pc = "getToken" ->
           {Ans("remoteFail"), Issue(freshToken, 12, "r1"),
            Issue(freshToken, 1, "r1"), Issue(freshToken, 1, NoRefresh)}
      [] r.pc \in {"select", "find"} -> {Ans("none"), Ans("fetch")}
      [] r.pc = "link" -> {Ans("none"), Ans("link")}
      [] OTHER -> {Ans("none"), Ans("write")}

CreateBodies ==
    {[NoReq EXCEPT !.title = t, !.dueDate = d] :
        t \in {UndefTitle, <<"\t", "U+00A0">>, <<"a">>, <<" ", "a", "U+000B">>},
        d \in {UndefDate, IsoDate(D1)}}
    \cup {[NoReq EXCEPT !.title = <<"a">>, !.status = s] :
            s \in {"completed", "in-progress"}}
    \cup {[NoReq EXCEPT !.title = <<"a">>, !.priority = "high", !.description = "d"],
          [NoReq EXCEPT !.title = <<"a">>, !.description = "", !.priority = Null,
                        !.status = ""],
          [NoReq EXCEPT !.title = <<"a">>, !.priority = "urgent"]}

Patches ==
    {[NoReq EXCEPT !.title = t] : t \in {<<>>, <<"a">>, <<" ", "a">>, <<"b">>}}
    \cup {[NoReq EXCEPT !.dueDate = d] :
            d \in {NullDate, IsoDate(D1), PgDate(D1), IsoDate(D2)}}
    \cup {[NoReq EXCEPT !.status = "completed"], [NoReq EXCEPT !.status = ""]}
    \cup {[NoReq EXCEPT !.priority = "low"], [NoReq EXCEPT !.description = "d"],
          [NoReq EXCEPT !.title = <<"b">>, !.dueDate = IsoDate(D2)],
          [NoReq EXCEPT !.title = <<"b">>, !.dueDate = NullDate],
          NoReq}

LinkBodies == {[NoReq EXCEPT !.eventId = e] : e \in EventIds}

EventFields == {<<<<"b">>, D2>>, <<<<" ", "a">>, D1>>}

AddBodies ==
    {[NoReq EXCEPT !.title = f[1], !.start = IsoDate(f[2]),
                   !.end = IsoDate(f[2] + HourMs)] : f \in EventFields}

\* the bodies of updateEvent: title, start and end for any event id, or a
\* title alone for event 1
EventBodies ==
    {[b EXCEPT !.eventId = e] : b \in AddBodies, e \in EventIds \ {NoEvent}}
    \cup {[NoReq EXCEPT !.eventId = 1, !.title = <<"b">>]}

DeleteBodies == {[NoReq EXCEPT !.eventId = e] : e \in EventIds \ {NoEvent}}

ListBodies ==
    {[NoReq EXCEPT !.filter = f] : f \in {Undef, "", "pending", "completed"}}

UpcomingBodies == {[NoReq EXCEPT !.limit = l] : l \in {0, 1}}

\* the credential an OAuth callback of user A leaves behind at T0, with a
\* lifetime of l ticks
Connected(l) == <<TokenRow("A", 1, "r1", T0 + l * TickMs)>>

\* the row createTodo stores for A's {title: "a", dueDate: D1} once the
\* calendar event 1 has been created for it
LinkedTodo ==
    [id |-> 1, user_id |-> "A", title |-> <<"a">>, description |-> Null,
     priority |-> "medium", status |-> "pending", due_date |-> PgDate(D1),
     calendar_event_id |-> 1, completed_at |-> NoTime]

\* the row createTodo stores next for A's {title: "a"}
PlainTodo ==
    [id |-> 2, user_id |-> "A", title |-> <<"a">>, description |-> Null,
     priority |-> "medium", status |-> "pending", due_date |-> NullDate,
     calendar_event_id |-> NoEvent, completed_at |-> NoTime]

\* the server starts on one of: an empty store with A's calendar not
\* connected, connected, or connected with a token about to expire; or the
\* store left by A's OAuth callback and first createTodo with a due date; or
\* that store after A's second createTodo, without a due date
InitStores ==
    {[todos |-> <<>>, tokens |-> tk, events |-> {}, nextTodoId |-> 1,
      nextEventId |-> 1] : tk \in {<<>>, Connected(12), Connected(1)}}
    \cup
    {[todos |-> (1 :> LinkedTodo), tokens |-> Connected(12),
      events |-> {[id |-> 1, owner |-> "A"]}, nextTodoId |-> 2,
      nextEventId |-> 2],
     [todos |-> (1 :> LinkedTodo) @@ (2 :> PlainTodo), tokens |-> Connected(12),
      events |-> {[id |-> 1, owner |-> "A"]}, nextTodoId |-> 3,
      nextEventId |-> 2]}

(***************************************************************************)
(* State machine.  runs holds the requests in flight, one per client       *)
(* connection; a step of the server runs one of them from the await it     *)
(* stands at to its next await, so that requests interleave at every       *)
(* await.  last is the request that has just been answered (NoLast         *)
(* otherwise); prev is the store as found by the first of the requests now *)
(* in flight.                                                              *)
(***************************************************************************)
Store(td, tk, ev, nt, ne) ==
    [todos |-> td, tokens |-> tk, events |-> ev, nextTodoId |-> nt,
     nextEventId |-> ne]

\* the client connections of the concurrent specifications
Procs == 1..MaxProcs

Quiet == [p \in Procs |-> NoRun]

Init ==
    /\ runs = <<NoRun>>
    /\ \E s \in InitStores :
          /\ todos = s.todos
          /\ tokens = s.tokens
          /\ events = s.events
          /\ nextTodoId = s.nextTodoId
          /\ nextEventId = s.nextEventId
    /\ now = T0
    /\ ops = 0
    /\ last = NoLast
    /\ prev = Store(todos, tokens, events, nextTodoId, nextEventId)

\* no other request is in flight
Alone(p) == \A q \in DOMAIN runs \ {p} : runs[q].pc = "idle"

\* the server takes the next request of client p
Ready(p) == runs[p].pc = "idle" /\ ops < MaxOps

\* the effects of one step of the request of client p; ids are handed out in
\* order
Commit(p, o) ==
    /\ nextTodoId + o.usedTodo <= MaxTodos + 1
    /\ nextEventId + o.usedEv <= MaxEvents + 1
    /\ todos' = o.todos
    /\ tokens' = o.tokens
    /\ events' = o.events
    /\ nextTodoId' = nextTodoId + o.usedTodo
    /\ nextEventId' = nextEventId + o.usedEv
    /\ ops' = IF runs[p].pc = "idle" THEN ops + 1 ELSE ops
    /\ runs' = [runs EXCEPT ![p] = o.run]
    /\ last' = IF o.run.pc = "done" THEN LastOf(o.run) ELSE NoLast
    /\ prev' = IF runs[p].pc = "idle" /\ Alone(p)
               THEN Store(todos, tokens, events, nextTodoId, nextEventId)
               ELSE prev
    /\ now' = now

\* the handler of r runs from the await r stands at to its next await
Start(p, r) == \E in \in Answers(r) : Commit(p, handle(r, in))

CreateTodo(p) ==
    /\ Ready(p)
    /\ \E u \in Users, b \in CreateBodies :
          Start(p, Begin("createTodo", u, 0, b, "insert"))

GetTodoById(p) ==
    /\ Ready(p)
    /\ \E u \in Users, id \in TodoIds, f \in {"none", "fetch"} :
          Commit(p, getTodoById(u, id, f))

UpdateTodo(p) ==
    /\ Ready(p)
    /\ \E u \in Users, id \in TodoIds, b \in Patches :
          Start(p, Begin("updateTodo", u, id, b, "select"))

DeleteTodo(p) ==
    /\ Ready(p)
    /\ \E u \in Users, id \in TodoIds :
          Start(p, Begin("deleteTodo", u, id, NoReq, "select"))

CompleteTodo(p) ==
    /\ Ready(p)
    /\ \E u \in Users, id \in TodoIds :
          Start(p, Begin("completeTodo", u, id, NoReq, "select"))

LinkTodoToCalendar(p) ==
    /\ Ready(p)
    /\ \E u \in Users, id \in TodoIds, b \in LinkBodies :
          Start(p, Begin("linkTodoToCalendar", u, id, b, "select"))

GetTodos(p) ==
    /\ Ready(p)
    /\ \E u \in Users, b \in ListBodies, f \in {"none", "fetch"} :
          Commit(p, getTodos(u, b, f))

GetUpcomingTodos(p) ==
    /\ Ready(p)
    /\ \E u \in Users, b \in UpcomingBodies, f \in {"none", "fetch"} :
          \E order \in upcomingOrders(upcomingRows(u)) :
              Commit(p, getUpcomingTodos(u, b, f, order))

HandleGoogleCallback(p) ==
    /\ Ready(p)
    /\ \E code \in BOOLEAN, state \in Users :
          LET r == Begin("handleGoogleCallback", state, 0, NoReq, "getToken")
          IN \E in \in Answers(r) : Commit(p, handleGoogleCallback(r, code, in))

DisconnectCalendar(p) ==
    /\ Ready(p)
    /\ \E u \in Users, f \in {"none", "write"} :
          Commit(p, disconnectCalendar(u, f))

GetCalendarEvents(p) ==
    /\ Ready(p)
    /\ \E u \in Users :
          Start(p, Begin("getCalendarEvents", u, 0, NoReq, "token"))

AddEvent(p) ==
    /\ Ready(p)
    /\ \E u \in Users, b \in AddBodies :
          Start(p, Begin("addEvent", u, 0, b, "token"))

UpdateEvent(p) ==
    /\ Ready(p)
    /\ \E u \in Users, b \in EventBodies :
          Start(p, Begin("updateEvent", u, 0, b, "token"))

DeleteEvent(p) ==
    /\ Ready(p)
    /\ \E u \in Users, b \in DeleteBodies :
          Start(p, Begin("deleteEvent", u, 0, b, "token"))

\* the await of a request in flight is answered and its handler goes on
Resume(p) ==
    /\ runs[p].pc \notin {"idle", "done"}
    /\ Start(p, runs[p])

\* the response has been sent; the client goes on to its next request
Reply(p) ==
    /\ runs[p].pc = "done"
    /\ ops < MaxOps
    /\ runs' = [runs EXCEPT ![p] = NoRun]
    /\ last' = NoLast
    /\ prev' = IF Alone(p)
               THEN Store(todos, tokens, events, nextTodoId, nextEventId)
               ELSE prev
    /\ UNCHANGED <<todos, tokens, events, now, nextTodoId, nextEventId, ops>>

Next ==
    \/ \E p \in DOMAIN runs : CreateTodo(p)
    \/ \E p \in DOMAIN runs : GetTodoById(p)
    \/ \E p \in DOMAIN runs : UpdateTodo(p)
    \/ \E p \in DOMAIN runs : DeleteTodo(p)
    \/ \E p \in DOMAIN runs : CompleteTodo(p)
    \/ \E p \in DOMAIN runs : LinkTodoToCalendar(p)
    \/ \E p \in DOMAIN runs : GetTodos(p)
    \/ \E p \in DOMAIN runs : GetUpcomingTodos(p)
    \/ \E p \in DOMAIN runs : HandleGoogleCallback(p)
    \/ \E p \in DOMAIN runs : DisconnectCalendar(p)
    \/ \E p \in DOMAIN runs : GetCalendarEvents(p)
    \/ \E p \in DOMAIN runs : AddEvent(p)
    \/ \E p \in DOMAIN runs : UpdateEvent(p)
    \/ \E p \in DOMAIN runs : DeleteEvent(p)
    \/ \E p \in DOMAIN runs : Resume(p)
    \/ \E p \in DOMAIN runs : Reply(p)

Spec == Init /\ [][Next]_vars

(***************************************************************************)
(* Listing on its own: the server starts on a store that earlier createTodo *)
(* requests have filled, with no calendar connected, and answers one list   *)
(* request.                                                                 *)
(***************************************************************************)
\* the rows createTodo stores for {title: "a", priority, status, dueDate},
\* and those rows after an updateTodo with {priority: null} or {status: null}
ListRows ==
    {[NoTodo EXCEPT !.user_id = u, !.title = <<"a">>, !.priority = p,
                    !.status = st, !.due_date = d] :
        u \in Users, p \in {"high", "medium", "low", Null},
        st \in {"pending", "completed", Null},
        d \in {NullDate, PgDate(D1), PgDate(D2)}}

\* the stores of n rows, with ids in creation order
ListStores(n) ==
    {[i \in 1..n |-> [f[i] EXCEPT !.id = i]] : f \in [1..n -> ListRows]}

InitList ==
    /\ runs = <<NoRun>>
    /\ \E n \in 0..MaxTodos : todos \in ListStores(n)
    /\ tokens = <<>>
    /\ events = {}
    /\ nextTodoId = Len(todos) + 1
    /\ nextEventId = 1
    /\ now = T0
    /\ ops = MaxOps - 1
    /\ last = NoLast
    /\ prev = Store(todos, tokens, events, nextTodoId, nextEventId)

NextList ==
    \/ \E p \in DOMAIN runs : GetTodos(p)
    \/ \E p \in DOMAIN runs : GetUpcomingTodos(p)

SpecList == InitList /\ [][NextList]_vars

(***************************************************************************)
(* Concurrent requests of user A on one todo: MaxProcs clients, whose       *)
(* requests are overtaken at every await on the store, on Google's token    *)
(* endpoint and on the calendar API.                                        *)
(***************************************************************************)
\* the store after A's OAuth callback; after it and createTodo {title: "a"};
\* or after it and createTodo {title: "a", dueDate: D1}
RaceStores ==
    {[todos |-> <<>>, tokens |-> Connected(12), events |-> {},
      nextTodoId |-> 1, nextEventId |-> 1],
     [todos |-> (1 :> [PlainTodo EXCEPT !.id = 1]), tokens |-> Connected(12),
      events |-> {}, nextTodoId |-> 2, nextEventId |-> 1],
     [todos |-> (1 :> LinkedTodo), tokens |-> Connected(12),
      events |-> {[id |-> 1, owner |-> "A"]}, nextTodoId |-> 2,
      nextEventId |-> 2]}

RacePatches ==
    {[NoReq EXCEPT !.dueDate = IsoDate(D1)], [NoReq EXCEPT !.dueDate = NullDate],
     [NoReq EXCEPT !.title = <<"b">>],
     [NoReq EXCEPT !.title = <<"b">>, !.dueDate = IsoDate(D2)]}

\* A's requests: updateTodo, deleteTodo and completeTodo of todo 1, and
\* createTodo {title: "a", dueDate: D1}
RaceRequests ==
    {Begin("updateTodo", "A", 1, b, "select") : b \in RacePatches}
    \cup {Begin("deleteTodo", "A", 1, NoReq, "select"),
          Begin("completeTodo", "A", 1, NoReq, "select"),
          Begin("createTodo", "A", 0,
                [NoReq EXCEPT !.title = <<"a">>, !.dueDate = IsoDate(D1)],
                "insert")}

InitRace ==
    /\ runs = Quiet
    /\ \E s \in RaceStores :
          /\ todos = s.todos
          /\ tokens = s.tokens
          /\ events = s.events
          /\ nextTodoId = s.nextTodoId
          /\ nextEventId = s.nextEventId
    /\ now = T0
    /\ ops = 0
    /\ last = NoLast
    /\ prev = Store(todos, tokens, events, nextTodoId, nextEventId)

\* one of A's requests arrives while others may be in flight
Arrive(p) ==
    /\ Ready(p)
    /\ \E r \in RaceRequests : Start(p, r)

NextRace ==
    \/ \E p \in DOMAIN runs : Arrive(p)
    \/ \E p \in DOMAIN runs : GetTodos(p)
    \/ \E p \in DOMAIN runs : Resume(p)
    \/ \E p \in DOMAIN runs : Reply(p)

SpecRace == InitRace /\ [][NextRace]_vars

(***************************************************************************)
(* Concurrent getCalendarEvents requests, whose refreshTokenIfNeeded calls  *)
(* interleave at the three awaits: the select, Google's                     *)
(* refreshAccessToken, and the update.                                      *)
(***************************************************************************)
\* A's credential row: about to expire, fresh, or about to expire without a
\* refresh token
RefreshStores ==
    {Connected(1), Connected(12), <<TokenRow("A", 1, NoRefresh, T0 + TickMs)>>}

InitRefresh ==
    /\ runs = Quiet
    /\ tokens \in RefreshStores
    /\ todos = <<>>
    /\ events = {}
    /\ nextTodoId = 1
    /\ nextEventId = 1
    /\ now = T0
    /\ ops = 0
    /\ last = NoLast
    /\ prev = Store(todos, tokens, events, nextTodoId, nextEventId)

NextRefresh ==
    \/ \E p \in DOMAIN runs : GetCalendarEvents(p)
    \/ \E p \in DOMAIN runs : Resume(p)
    \/ \E p \in DOMAIN runs : Reply(p)

SpecRefresh == InitRefresh /\ [][NextRefresh]_vars

(***************************************************************************)
(* Two users and one event id.  Event 1 is in A's calendar; B has a todo    *)
(* and may link it to any event id through linkTodoToCalendar, which does   *)
(* not ask the provider whose event it is.                                  *)
(***************************************************************************)
\* the row createTodo stores for B's {title: "a"}
OtherTodo(id) == [PlainTodo EXCEPT !.id = id, !.user_id = "B"]

\* A connected and an event in A's calendar, with or without A's todo for
\* it; then B's createTodo
SharedStores ==
    {[todos |-> (1 :> OtherTodo(1)), tokens |-> Connected(12),
      events |-> {[id |-> 1, owner |-> "A"]}, nextTodoId |-> 2,
      nextEventId |-> 2],
     [todos |-> (1 :> LinkedTodo) @@ (2 :> OtherTodo(2)), tokens |-> Connected(12),
      events |-> {[id |-> 1, owner |-> "A"]}, nextTodoId |-> 3,
      nextEventId |-> 2]}

InitShared ==
    /\ runs = <<NoRun>>
    /\ \E s \in SharedStores :
          /\ todos = s.todos
          /\ tokens = s.tokens
          /\ events = s.events
          /\ nextTodoId = s.nextTodoId
          /\ nextEventId = s.nextEventId
    /\ now = T0
    /\ ops = 0
    /\ last = NoLast
    /\ prev = Store(todos, tokens, events, nextTodoId, nextEventId)

NextShared ==
    \/ \E p \in DOMAIN runs : LinkTodoToCalendar(p)
    \/ \E p \in DOMAIN runs : UpdateEvent(p)
    \/ \E p \in DOMAIN runs : DeleteEvent(p)
    \/ \E p \in DOMAIN runs : Resume(p)
    \/ \E p \in DOMAIN runs : Reply(p)

SpecShared == InitShared /\ [][NextShared]_vars

(***************************************************************************)
(* Updates of a todo that an earlier calendar synchronisation left with a   *)
(* due date and without a link.                                             *)
(***************************************************************************)
\* the row left by A's addEvent {title: " a", start: D1}, which stores the
\* title as sent, then updateTodo {dueDate: null}, which deletes the event
\* and clears the link, then updateTodo {dueDate: D1} whose calendar call
\* failed
PaddedTodo ==
    [LinkedTodo EXCEPT !.title = <<" ", "a">>, !.calendar_event_id = NoEvent]

\* the row left by A's createTodo {title: "a", dueDate: D1} whose calendar
\* call failed, or that was answered before the calendar was connected
UnsyncedTodo == [LinkedTodo EXCEPT !.calendar_event_id = NoEvent]

RecoverStores ==
    {[todos |-> (1 :> PaddedTodo), tokens |-> Connected(12), events |-> {},
      nextTodoId |-> 2, nextEventId |-> 2]}
    \cup
    {[todos |-> (1 :> UnsyncedTodo), tokens |-> tk, events |-> {},
      nextTodoId |-> 2, nextEventId |-> 1] : tk \in {<<>>, Connected(12)}}

InitRecover ==
    /\ runs = <<NoRun>>
    /\ \E s \in RecoverStores :
          /\ todos = s.todos
          /\ tokens = s.tokens
          /\ events = s.events
          /\ nextTodoId = s.nextTodoId
          /\ nextEventId = s.nextEventId
    /\ now = T0
    /\ ops = 0
    /\ last = NoLast
    /\ prev = Store(todos, tokens, events, nextTodoId, nextEventId)

NextRecover ==
    \/ \E p \in DOMAIN runs : UpdateTodo(p)
    \/ \E p \in DOMAIN runs : Resume(p)
    \/ \E p \in DOMAIN runs : Reply(p)

SpecRecover == InitRecover /\ [][NextRecover]_vars

\* req.user of the request being answered: the protect middleware sets it
\* on every route but the OAuth callback, which is mounted without it and
\* takes the user id from the query parameter state
principal ==
    IF last.op = "handleGoogleCallback" THEN NoUser ELSE last.user

(***************************************************************************)
(* Properties.  While a request is being answered (last # NoLast), prev is *)
(* the store before the request and todos, tokens, events the store after. *)
(***************************************************************************)
Answering == last.op # "init"

\* the calendar calls (insert, update, delete) of the last request, in order
calendarCalls ==
    LET isCalendar(c) == c.kind \in {"insert", "update", "delete"}
    IN SelectSeq(last.calls, isCalendar)

\* a character that shows nothing: a space of any width, a tab, a line or
\* paragraph break, the byte order mark; written as in a title, by itself
\* or by its code point
blank(c) ==
    \/ c \in {" ", "\t", "\n", "\r", "\f", "", " ", " ", "﻿"}
    \/ c \in {"U+000B", "U+00A0", "U+1680", "U+2000", "U+2001", "U+2002",
            "U+2003", "U+2004", "U+2005", "U+2006", "U+2007", "U+2008",
            "U+2009", "U+200A", "U+2028", "U+2029", "U+202F", "U+205F",
            "U+3000", "U+FEFF"}

\* t is s without its leading and trailing blank characters
isTrimOf(t, s) ==
    /\ t # <<>> => (~blank(t[1]) /\ ~blank(t[Len(t)]))
    /\ \E i \in 0..Len(s) : \E j \in i..Len(s) :
          /\ t = SubSeq(s, i + 1, j)
          /\ \A k \in (1..i) \cup ((j + 1)..Len(s)) : blank(s[k])

validTitle(s) == s # UndefTitle /\ ~isTrimOf(<<>>, s)

\* before the request, its caller had a stored credential that was current or
\* could be refreshed
hadCredential ==
    /\ Cardinality(tokenRows(prev.tokens, last.user)) = 1
    /\ \A i \in tokenRows(prev.tokens, last.user) :
          isExpired(prev.tokens[i], now)
          => prev.tokens[i].refresh_token # NoRefresh

\* the request met no injected fault, on the gateway or the store side
noFault == last.gwFault = "none" /\ last.fault = "none"

\* the request addresses, by :id, a todo that was stored
onStoredTodo(op) ==
    /\ last.op = op
    /\ last.id \in DOMAIN prev.todos

\* the patch names a title that differs, as sent, from the stored title,
\* or a dueDate that differs, as sent, from the stored due_date
sentChange ==
    \/ /\ last.req.title # UndefTitle
       /\ last.req.title # prev.todos[last.id].title
    \/ /\ last.req.dueDate # UndefDate
       /\ last.req.dueDate # prev.todos[last.id].due_date

\* the request addresses a stored todo of another user
foreignTodo ==
    /\ last.op \in {"getTodoById", "updateTodo", "deleteTodo", "completeTodo",
                    "linkTodoToCalendar"}
    /\ last.id \in DOMAIN prev.todos
    /\ prev.todos[last.id].user_id # last.user

\* the ids a list request answered with all belong to the caller
ownList ==
    last.op \in {"getTodos", "getUpcomingTodos"} =>
        \A k \in 1..Len(last.list) :
            /\ last.list[k] \in DOMAIN prev.todos
            /\ prev.todos[last.list[k]].user_id = last.user

\* the caller's todos that were linked to event e before the request
wereLinked(e) ==
    {i \in DOMAIN prev.todos :
        prev.todos[i].user_id = last.user /\ prev.todos[i].calendar_event_id = e}

(* C1: a createTodo with a valid title and a due date whose calendar sync   *)
(* could not complete (no usable credential, refresh rejected, or the       *)
(* remote insert failed) has, once its row was inserted, still stored the   *)
(* todo with a null link and answered 201 with that todo.                   *)
C1_CreateSurvivesSyncFailure ==
    (/\ last.op = "createTodo"
     /\ validTitle(last.req.title)
     /\ truthyDate(last.req.dueDate)
     /\ last.fault # "write"
     /\ ~last.syncOk)
    => /\ last.status = 201
       /\ last.id \notin DOMAIN prev.todos
       /\ last.id \in DOMAIN todos
       /\ todos[last.id].user_id = last.user
       /\ isTrimOf(todos[last.id].title, last.req.title)
       /\ todos[last.id].due_date.t = last.req.dueDate.t
       /\ todos[last.id].calendar_event_id = NoEvent
       /\ last.body.id = last.id
       /\ last.body.title = todos[last.id].title
       /\ last.body.calendarEventId = NoEvent

\* a createTodo with a due date whose remote insert failed was answered 201
C1_Witness ==
    /\ last.op = "createTodo"
    /\ truthyDate(last.req.dueDate)
    /\ last.cred = "ok"
    /\ last.gwFault = "remoteFail"
    /\ ~last.syncOk
    /\ last.status = 201
    /\ last.id \in DOMAIN todos

(* C2: link uniqueness as the specification states it: in every reachable   *)
(* state at most one stored todo has a given non-null calendar_event_id.    *)
C2_LinkUnique ==
    \A i, j \in DOMAIN todos :
        (i # j /\ todos[i].calendar_event_id # NoEvent)
        => todos[i].calendar_event_id # todos[j].calendar_event_id

(* C3: completion/timestamp coupling as the specification states it: in     *)
(* every reachable state a stored todo has status completed if and only if  *)
(* its completed_at is non-null.                                            *)
C3_CompletedIffTimestamp ==
    \A i \in DOMAIN todos :
        (todos[i].status = "completed") <=> (todos[i].completed_at # NoTime)

(* C4: an updateTodo with dueDate = null by the owner of a todo that has a  *)
(* due date and a link to an existing event, while the owner has a usable   *)
(* credential and neither the gateway nor the store fails, answers 200,     *)
(* leaves the stored and the returned calendar_event_id null, and issues    *)
(* exactly one calendar call: a delete of the event that had been linked.   *)
C4_DueDateRemovalUnlinks ==
    (/\ onStoredTodo("updateTodo")
     /\ last.req.dueDate = NullDate
     /\ prev.todos[last.id].user_id = last.user
     /\ prev.todos[last.id].calendar_event_id # NoEvent
     /\ truthyDate(prev.todos[last.id].due_date)
     /\ eventExists(prev.events, last.user, prev.todos[last.id].calendar_event_id)
     /\ hadCredential
     /\ noFault)
    => /\ last.status = 200
       /\ todos[last.id].calendar_event_id = NoEvent
       /\ ~truthyDate(todos[last.id].due_date)
       /\ last.body.calendarEventId = NoEvent
       /\ calendarCalls =
             <<Call("delete", last.user, prev.todos[last.id].calendar_event_id,
                    <<>>, NullDate, NullDate)>>
       /\ ~eventExists(events, last.user, prev.todos[last.id].calendar_event_id)

\* the due date of a linked todo was cleared and its event deleted
C4_Witness ==
    /\ onStoredTodo("updateTodo")
    /\ last.status = 200
    /\ last.req.dueDate = NullDate
    /\ prev.todos[last.id].calendar_event_id # NoEvent
    /\ truthyDate(prev.todos[last.id].due_date)
    /\ last.sync = "delete"
    /\ last.syncOk
    /\ todos[last.id].calendar_event_id = NoEvent

(* C5: an updateTodo whose patch has neither title nor dueDate issues no    *)
(* gateway call at all (no insert, update, delete or token refresh) and     *)
(* leaves every todo's calendar_event_id as it was, whatever the todo's due *)
(* date and link.                                                           *)
C5_NoSyncWithoutTitleOrDueDate ==
    (/\ last.op = "updateTodo"
     /\ last.req.title = UndefTitle
     /\ last.req.dueDate = UndefDate)
    => /\ last.calls = <<>>
       /\ tokens = prev.tokens
       /\ events = prev.events
       /\ DOMAIN todos = DOMAIN prev.todos
       /\ \A i \in DOMAIN todos :
             todos[i].calendar_event_id = prev.todos[i].calendar_event_id
       /\ (last.status = 200 =>
             last.body.calendarEventId = prev.todos[last.id].calendar_event_id)

\* a description-only patch was applied to a linked todo with a due date
C5_Witness ==
    /\ onStoredTodo("updateTodo")
    /\ last.status = 200
    /\ last.req.description = "d"
    /\ last.req.title = UndefTitle
    /\ last.req.dueDate = UndefDate
    /\ prev.todos[last.id].calendar_event_id # NoEvent
    /\ truthyDate(prev.todos[last.id].due_date)
    /\ todos[last.id].description = "d"

(* C6 (amended): a getTodoById, updateTodo, deleteTodo, completeTodo or     *)
(* linkTodoToCalendar request of one user for a todo of another user is     *)
(* answered 404 or 401, or 400 when it is a linkTodoToCalendar without an   *)
(* eventId, never 200, returns no todo and leaves the todos as they were;   *)
(* the lists getTodos and getUpcomingTodos answer with hold only the        *)
(* caller's todos.                                                          *)
C6_OwnershipIsolation ==
    Answering =>
       /\ foreignTodo =>
            /\ \/ last.status \in {404, 401}
               \/ /\ last.op = "linkTodoToCalendar"
                  /\ last.req.eventId = NoEvent
                  /\ last.status = 400
            /\ last.body = NoBody
            /\ todos = prev.todos
       /\ ownList

\* a user's update of another user's todo was refused with 401
C6_Witness ==
    /\ last.op = "updateTodo"
    /\ foreignTodo
    /\ last.status = 401
    /\ todos = prev.todos

(* C6 as the specification states it: such a request is answered 404 or     *)
(* 401 and never 200, and the lists hold only the caller's todos.           *)
C6_AsStated ==
    Answering =>
       /\ foreignTodo => last.status \in {404, 401}
       /\ ownList

(* C7: a createTodo with a valid title and due date D, answered while the   *)
(* caller has a usable credential and neither the gateway nor the store     *)
(* fails, makes exactly one calendar call, an insert with title = the       *)
(* trimmed title, start = D and end = D + 1 hour, and the response's        *)
(* calendarEventId and the stored link are the id the insert returned.      *)
C7_CreateWithDueDateSyncs ==
    (/\ last.op = "createTodo"
     /\ validTitle(last.req.title)
     /\ truthyDate(last.req.dueDate)
     /\ hadCredential
     /\ noFault)
    => /\ last.status = 201
       /\ Len(calendarCalls) = 1
       /\ calendarCalls[1].kind = "insert"
       /\ calendarCalls[1].user = last.user
       /\ isTrimOf(calendarCalls[1].title, last.req.title)
       /\ calendarCalls[1].start = IsoDate(last.req.dueDate.t)
       /\ calendarCalls[1].end = IsoDate(last.req.dueDate.t + HourMs)
       /\ ~eventExists(prev.events, last.user, prev.nextEventId)
       /\ eventExists(events, last.user, prev.nextEventId)
       /\ last.body.calendarEventId = prev.nextEventId
       /\ last.id \in DOMAIN todos
       /\ todos[last.id].calendar_event_id = prev.nextEventId

\* a todo with a padded title and a due date was created and linked
C7_Witness ==
    /\ last.op = "createTodo"
    /\ last.status = 201
    /\ last.req.title = <<" ", "a", "U+000B">>
    /\ truthyDate(last.req.dueDate)
    /\ last.syncOk
    /\ last.body.calendarEventId # NoEvent
    /\ todos[last.id].calendar_event_id = last.body.calendarEventId

(* C8 (amended): an updateTodo answered 200 for a todo that has a link and  *)
(* still has a due date afterwards, whose patch title differs from the      *)
(* stored title or whose patch dueDate differs, as a string, from the       *)
(* stored due_date, makes no insert and no delete call and leaves           *)
(* calendar_event_id unchanged; when the caller has a usable credential it  *)
(* makes exactly one update call, with the existing event id, title = the   *)
(* updated title, start = the new due date and end = that + 1 hour, and     *)
(* without one it makes no calendar call.  Such an updateTodo whose patch   *)
(* title equals the stored title character for character and whose patch   *)
(* dueDate is absent or identical to the stored due_date makes no gateway   *)
(* call, even if trimming changes the stored title.                         *)
C8_UpdateInPlace ==
  /\ (/\ onStoredTodo("updateTodo")
      /\ last.status = 200
      /\ prev.todos[last.id].calendar_event_id # NoEvent
      /\ truthyDate(todos[last.id].due_date)
      /\ last.req.title = prev.todos[last.id].title
      /\ last.req.dueDate \in {UndefDate, prev.todos[last.id].due_date})
     => /\ last.calls = <<>>
        /\ events = prev.events
        /\ todos[last.id].calendar_event_id = prev.todos[last.id].calendar_event_id
        /\ last.body.calendarEventId = prev.todos[last.id].calendar_event_id
  /\ (/\ onStoredTodo("updateTodo")
      /\ last.status = 200
      /\ prev.todos[last.id].calendar_event_id # NoEvent
      /\ truthyDate(todos[last.id].due_date)
      /\ \/ /\ last.req.title # UndefTitle
            /\ last.req.title # prev.todos[last.id].title
         \/ /\ last.req.dueDate # UndefDate
            /\ last.req.dueDate # prev.todos[last.id].due_date)
     => /\ todos[last.id].calendar_event_id = prev.todos[last.id].calendar_event_id
        /\ last.body.calendarEventId = prev.todos[last.id].calendar_event_id
        /\ events = prev.events
        /\ IF last.cred = "ok"
           THEN calendarCalls =
                  <<Call("update", last.user,
                         prev.todos[last.id].calendar_event_id,
                         todos[last.id].title,
                         IsoDate(todos[last.id].due_date.t),
                         IsoDate(todos[last.id].due_date.t + HourMs))>>
           ELSE calendarCalls = <<>>
        /\ (hadCredential
              /\ last.gwFault \notin {"tokSelErr", "refreshReject", "tokUpdErr"})
           => last.cred = "ok"

\* the due date of a linked todo was moved and its event updated in place
C8_Witness ==
    /\ onStoredTodo("updateTodo")
    /\ last.status = 200
    /\ prev.todos[last.id].calendar_event_id # NoEvent
    /\ truthyDate(last.req.dueDate)
    /\ last.req.dueDate.t # prev.todos[last.id].due_date.t
    /\ last.sync = "update"
    /\ last.syncOk
    /\ Len(calendarCalls) = 1
    /\ todos[last.id].calendar_event_id = prev.todos[last.id].calendar_event_id

(* C8 as the specification states it: every updateTodo that changes the     *)
(* title or the due date of a todo that has a link and still has a due      *)
(* date afterwards makes exactly one update call, with the existing event   *)
(* id, the updated title, start = the new due date and end = that + 1       *)
(* hour, makes no insert or delete call and leaves the link unchanged.      *)
(* Stated for the requests that meet no injected fault.                     *)
C8_AsStated ==
    (/\ onStoredTodo("updateTodo")
     /\ last.status = 200
     /\ noFault
     /\ prev.todos[last.id].calendar_event_id # NoEvent
     /\ truthyDate(todos[last.id].due_date)
     /\ \/ todos[last.id].title # prev.todos[last.id].title
        \/ todos[last.id].due_date # prev.todos[last.id].due_date)
    => /\ todos[last.id].calendar_event_id = prev.todos[last.id].calendar_event_id
       /\ calendarCalls =
             <<Call("update", last.user,
                    prev.todos[last.id].calendar_event_id,
                    todos[last.id].title,
                    IsoDate(todos[last.id].due_date.t),
                    IsoDate(todos[last.id].due_date.t + HourMs))>>

(* C9: calendar-side delete as the specification states it: a deleteEvent   *)
(* for an event linked to one of the caller's todos removes that todo and   *)
(* leaves no todo of the caller referring to the event; a deleteEvent for   *)
(* an event id that had been handed out, that no todo of the caller is      *)
(* linked to and that no longer exists at the provider is answered without  *)
(* an error and changes no todo.  Both for a caller with a usable           *)
(* credential and no injected fault.                                        *)
C9_DeleteEventIdempotent ==
    (/\ last.op = "deleteEvent"
     /\ hadCredential
     /\ noFault)
    => /\ (wereLinked(last.req.eventId) # {}
             /\ eventExists(prev.events, last.user, last.req.eventId))
          => /\ last.status = 200
             /\ \A i \in DOMAIN todos :
                   ~(todos[i].user_id = last.user
                       /\ todos[i].calendar_event_id = last.req.eventId)
       /\ (wereLinked(last.req.eventId) = {}
             /\ last.req.eventId < prev.nextEventId
             /\ ~eventExists(prev.events, last.user, last.req.eventId))
          => /\ last.status = 200
             /\ todos = prev.todos

(* C10: link consistency as the specification states it, in the direction   *)
(* from the link to the event: in every reachable state a todo whose        *)
(* calendar_event_id is non-null has a remote event with that id in its     *)
(* owner's calendar.                                                        *)
C10_LinkedEventExists ==
    \A i \in DOMAIN todos :
        todos[i].calendar_event_id # NoEvent
        => eventExists(events, todos[i].user_id, todos[i].calendar_event_id)

\* the patch names at least one of the five fields
patchNamesField(b) ==
    \/ b.title # UndefTitle
    \/ b.description # Undef
    \/ b.priority # Undef
    \/ b.status # Undef
    \/ b.dueDate # UndefDate

\* the row t holds every field the patch b names, and the fields of the
\* earlier row t0 that b does not name
persisted(t, t0, b) ==
    /\ IF b.title # UndefTitle THEN isTrimOf(t.title, b.title)
       ELSE t.title = t0.title
    /\ t.description = IF b.description # Undef THEN b.description
                       ELSE t0.description
    /\ t.priority = IF b.priority # Undef THEN b.priority ELSE t0.priority
    /\ t.status = IF b.status # Undef THEN b.status ELSE t0.status
    /\ IF b.dueDate = UndefDate THEN t.due_date = t0.due_date
       ELSE IF b.dueDate = NullDate THEN ~truthyDate(t.due_date)
       ELSE truthyDate(t.due_date) /\ t.due_date.t = b.dueDate.t
    /\ t.id = t0.id
    /\ t.user_id = t0.user_id
    /\ t.completed_at = t0.completed_at

\* an updateTodo of the owner with a non-empty patch whose read and update of
\* the row went through
ownPatchStored ==
    /\ onStoredTodo("updateTodo")
    /\ prev.todos[last.id].user_id = last.user
    /\ patchNamesField(last.req)
    /\ last.fault \notin {"fetch", "write"}

(* C11: an updateTodo by the owner with a non-empty patch whose store       *)
(* update succeeded is answered 200 and the stored row holds the patched    *)
(* fields (and the unpatched ones as before), whether the calendar call     *)
(* that follows succeeded, failed, or was skipped; a gateway failure gives  *)
(* no 4xx/5xx answer and does not undo the patch.                           *)
C11_UpdateSurvivesSyncFailure ==
    ownPatchStored
    => /\ last.status = 200
       /\ ~last.threw
       /\ last.id \in DOMAIN todos
       /\ persisted(todos[last.id], prev.todos[last.id], last.req)
       /\ last.body.id = last.id
       /\ last.body.title = todos[last.id].title
       /\ last.body.description = todos[last.id].description
       /\ last.body.priority = todos[last.id].priority
       /\ last.body.status = todos[last.id].status
       /\ last.body.dueDate = todos[last.id].due_date

\* the title of a linked todo was changed while the remote update failed
C11_Witness ==
    /\ ownPatchStored
    /\ last.sync = "update"
    /\ last.cred = "ok"
    /\ last.gwFault = "remoteFail"
    /\ ~last.syncOk
    /\ last.status = 200
    /\ last.req.title = <<"b">>
    /\ prev.todos[last.id].title # <<"b">>
    /\ todos[last.id].title = <<"b">>

\* the refreshTokenIfNeeded of the request met none of its own faults
noTokenFault == last.gwFault \notin {"tokSelErr", "refreshReject", "tokUpdErr"}

\* a deleteTodo of the owner whose read of the row went through
ownDelete ==
    /\ onStoredTodo("deleteTodo")
    /\ prev.todos[last.id].user_id = last.user
    /\ last.fault # "fetch"

(* C12: a deleteTodo by the owner of a todo that has a link calls the       *)
(* gateway's delete once, for the linked event: with a usable credential    *)
(* that is exactly one remote delete call, without one no remote call; of a *)
(* todo without a link it makes no gateway call at all.  The call comes     *)
(* before the row is deleted: it has been made even when the row's deletion *)
(* then fails.  Unless the store's deletion itself fails, the row is gone   *)
(* and the answer is 200, whether the remote delete succeeded, failed or    *)
(* was skipped.                                                             *)
C12_DeleteNotBlockedByCalendar ==
    ownDelete
    => LET e == prev.todos[last.id].calendar_event_id IN
       /\ IF e # NoEvent
          THEN /\ last.sync = "delete"
               /\ (hadCredential /\ noTokenFault) => last.cred = "ok"
               /\ IF last.cred = "ok"
                  THEN calendarCalls =
                         <<Call("delete", last.user, e, <<>>, NullDate, NullDate)>>
                  ELSE calendarCalls = <<>>
               /\ (last.cred = "ok" /\ last.gwFault = "none"
                     /\ eventExists(prev.events, last.user, e))
                  => ~eventExists(events, last.user, e)
          ELSE /\ last.sync = "none"
               /\ last.calls = <<>>
               /\ tokens = prev.tokens
               /\ events = prev.events
       /\ ~last.threw
       /\ IF last.fault = "write"
          THEN last.status = 500 /\ todos = prev.todos
          ELSE /\ last.status = 200
               /\ DOMAIN todos = DOMAIN prev.todos \ {last.id}
               /\ \A i \in DOMAIN todos : todos[i] = prev.todos[i]

\* a linked todo was deleted although the remote delete failed
C12_Witness ==
    /\ ownDelete
    /\ prev.todos[last.id].calendar_event_id # NoEvent
    /\ last.cred = "ok"
    /\ last.gwFault = "remoteFail"
    /\ ~last.syncOk
    /\ last.status = 200
    /\ last.id \notin DOMAIN todos

\* the request called one of the three gateway helpers
helperCalled ==
    /\ last.op \in {"createTodo", "updateTodo", "deleteTodo"}
    /\ last.sync \in {"create", "update", "delete"}

\* the kind of remote call each helper makes
helperCall ==
    CASE last.sync = "create" -> "insert"
      [] last.sync = "update" -> "update"
      [] last.sync = "delete" -> "delete"
      [] OTHER -> "none"

(* C13: whenever createTodo, updateTodo or deleteTodo calls one of the      *)
(* three gateway helpers, the helper returns and does not raise: either     *)
(* success = true with no error (and, for create, the id of the event       *)
(* inserted) or success = false with an error; when no usable credential    *)
(* is available (none stored, the read of it failed, it is expired and      *)
(* cannot be refreshed or the refreshed one could not be stored) the        *)
(* result is success = false with error 'Calendar not connected' and no     *)
(* remote event call is made; otherwise exactly one remote event call of    *)
(* the helper's kind is made.                                               *)
C13_HelpersNeverRaise ==
    helperCalled
    => /\ ~last.threw
       /\ last.status \in {200, 201, 500}
       /\ last.status = 500 => last.fault = "write"
       /\ IF last.syncOk
          THEN /\ last.syncError = ""
               /\ last.sync = "create"
                  => /\ ~eventExists(prev.events, last.user, prev.nextEventId)
                     /\ eventExists(events, last.user, prev.nextEventId)
                     /\ last.fault = "none"
                        => last.body.calendarEventId = prev.nextEventId
          ELSE last.syncError # ""
       /\ IF hadCredential /\ noTokenFault
          THEN /\ last.cred = "ok"
               /\ last.credential # NoCred
               /\ Len(calendarCalls) = 1
               /\ calendarCalls[1].kind = helperCall
               /\ calendarCalls[1].user = last.user
          ELSE /\ ~last.syncOk
               /\ last.syncError = "Calendar not connected"
               /\ last.credential = NoCred
               /\ calendarCalls = <<>>
               /\ events = prev.events

\* a todo with a due date was created by a user whose calendar is not
\* connected: the create helper answered 'Calendar not connected'
C13_Witness ==
    /\ helperCalled
    /\ last.op = "createTodo"
    /\ tokenRows(prev.tokens, last.user) = {}
    /\ ~last.syncOk
    /\ last.syncError = "Calendar not connected"
    /\ last.status = 201

\* the request called refreshTokenIfNeeded for its caller
credentialAsked == Answering /\ last.cred \in {"ok", "missing"}

\* the token refreshes of the last request
refreshCalls ==
    LET isRefresh(c) == c.kind = "refresh"
    IN SelectSeq(last.calls, isRefresh)

\* the credential a stored row stands for
credentialOf(td) ==
    [accessToken |-> td.access_token, refreshToken |-> td.refresh_token,
     expiryDate |-> td.expiry_date]

\* the caller's stored credential was replaced by the one returned, and no
\* other row was touched
refreshedAndStored ==
    /\ last.credential # NoCred
    /\ Len(tokens) = Len(prev.tokens)
    /\ \A i \in 1..Len(tokens) :
          IF prev.tokens[i].user_id = last.user
          THEN /\ tokens[i].user_id = last.user
               /\ credentialOf(tokens[i]) = last.credential
          ELSE tokens[i] = prev.tokens[i]

(* C14: every call of refreshTokenIfNeeded returns (it never raises), and:  *)
(* it returns null when the caller has no stored credential or the read of  *)
(* it fails; when the stored expiry is later than now + 5 minutes it        *)
(* returns the stored credential without a refresh call or a store write;   *)
(* when the stored expiry is at or before now + 5 minutes it makes one      *)
(* refresh call, stores the new access token and expiry and returns that    *)
(* credential; and it returns null, with the store unchanged, when no       *)
(* refresh token is stored (no refresh call), when the refresh is rejected  *)
(* or when the refreshed credential cannot be stored.                       *)
C14_CredentialValidity ==
    credentialAsked
    => LET rows == tokenRows(prev.tokens, last.user) IN
       /\ ~last.threw
       /\ (last.cred = "ok") <=> (last.credential # NoCred)
       /\ Len(refreshCalls) <= 1
       /\ IF rows = {} \/ last.gwFault = "tokSelErr"
          THEN /\ last.credential = NoCred
               /\ refreshCalls = <<>>
               /\ tokens = prev.tokens
          ELSE \A i \in rows :
                 LET td == prev.tokens[i] IN
                 IF td.expiry_date > now + 5 * 60 * 1000
                 THEN /\ last.credential = credentialOf(td)
                      /\ refreshCalls = <<>>
                      /\ tokens = prev.tokens
                 ELSE IF td.refresh_token = NoRefresh
                 THEN /\ last.credential = NoCred
                      /\ refreshCalls = <<>>
                      /\ tokens = prev.tokens
                 ELSE /\ Len(refreshCalls) = 1
                      /\ refreshCalls[1].user = last.user
                      /\ IF last.gwFault \in {"refreshReject", "tokUpdErr"}
                         THEN /\ last.credential = NoCred
                              /\ tokens = prev.tokens
                         ELSE refreshedAndStored

\* a credential expiring in exactly five minutes was refreshed and stored
C14_Witness ==
    /\ credentialAsked
    /\ \E i \in tokenRows(prev.tokens, last.user) :
          /\ prev.tokens[i].expiry_date = now + 5 * 60 * 1000
          /\ tokens[i].expiry_date > prev.tokens[i].expiry_date
          /\ credentialOf(tokens[i]) = last.credential
    /\ Len(refreshCalls) = 1
    /\ last.cred = "ok"

\* the rows of other users than the caller are as they were, in order
otherRowsKept ==
    LET others(r) == r.user_id # last.user
    IN SelectSeq(tokens, others) = SelectSeq(prev.tokens, others)

(* C15: in every reachable state the credential store holds at most one     *)
(* row per user id; an OAuth callback that is saved leaves exactly one row  *)
(* for its user (replacing the row the user had, adding one otherwise) and  *)
(* a disconnect that succeeds leaves none, and neither touches the rows of  *)
(* other users; a refresh keeps the number of rows.                         *)
C15_CredentialUnique ==
    /\ \A u \in Users : Cardinality(tokenRows(tokens, u)) <= 1
    /\ (last.op = "handleGoogleCallback" /\ last.connected = "connected")
       => /\ Cardinality(tokenRows(tokens, last.user)) = 1
          /\ Len(tokens) =
                IF tokenRows(prev.tokens, last.user) = {}
                THEN Len(prev.tokens) + 1 ELSE Len(prev.tokens)
          /\ otherRowsKept
    /\ (last.op = "disconnectCalendar" /\ last.status = 200)
       => /\ tokenRows(tokens, last.user) = {}
          /\ otherRowsKept
    /\ (Answering /\ last.op \notin {"handleGoogleCallback", "disconnectCalendar"})
       => /\ Len(tokens) = Len(prev.tokens)
          /\ otherRowsKept

\* a second OAuth callback of a connected user replaced the user's row
C15_Witness ==
    /\ last.op = "handleGoogleCallback"
    /\ last.connected = "connected"
    /\ \E i \in tokenRows(prev.tokens, last.user) :
          /\ tokenRows(tokens, last.user) = {i}
          /\ tokens[i] # prev.tokens[i]
    /\ Len(tokens) = Len(prev.tokens)

\* the request is one of the three calendar endpoints that change an event
calendarDirect == last.op \in {"addEvent", "updateEvent", "deleteEvent"}

\* the remote call of a calendar endpoint cannot succeed: the provider fails,
\* or the event to update or delete is not in the caller's calendar
remoteRefuses ==
    \/ last.gwFault = "remoteFail"
    \/ /\ last.op \in {"updateEvent", "deleteEvent"}
       /\ ~eventExists(prev.events, last.user, last.req.eventId)

(* C16: an addEvent, updateEvent or deleteEvent of a caller without a       *)
(* usable credential is answered 401 with connected = false and             *)
(* needsReconnect = true and makes no remote event call; one whose remote   *)
(* call fails is answered 500; in both cases the todos are exactly as they  *)
(* were, and so are the provider's events.                                  *)
C16_CalendarDirectFailure ==
    calendarDirect
    => /\ ~(hadCredential /\ noTokenFault)
          => /\ last.status = 401
             /\ last.connected = "false"
             /\ calendarCalls = <<>>
             /\ todos = prev.todos
             /\ events = prev.events
       /\ (hadCredential /\ noTokenFault /\ remoteRefuses)
          => /\ last.status = 500
             /\ last.connected = "absent"
             /\ Len(calendarCalls) = 1
             /\ todos = prev.todos
             /\ events = prev.events
       /\ last.status \in {401, 500} => todos = prev.todos

\* a deleteEvent for an event that one of the caller's todos is linked to,
\* by a caller whose calendar is no longer connected, was answered 401 and
\* left the todo in place
C16_Witness ==
    /\ last.op = "deleteEvent"
    /\ tokenRows(prev.tokens, last.user) = {}
    /\ wereLinked(last.req.eventId) # {}
    /\ last.status = 401
    /\ last.connected = "false"
    /\ todos = prev.todos

\* an addEvent that was answered with the success response
addEventDone == last.op = "addEvent" /\ last.status = 200

\* exactly one todo was added by the request, and it is the todo of the
\* event the request created
oneTodoForEvent ==
    /\ DOMAIN todos = DOMAIN prev.todos \cup {prev.nextTodoId}
    /\ prev.nextTodoId \notin DOMAIN prev.todos
    /\ \A i \in DOMAIN prev.todos : todos[i] = prev.todos[i]
    /\ LET t == todos[prev.nextTodoId] IN
       /\ t.user_id = last.user
       /\ t.title = last.req.title
       /\ truthyDate(t.due_date)
       /\ t.due_date.t = last.req.start.t
       /\ t.priority = "medium"
       /\ t.status = "pending"
       /\ t.calendar_event_id = prev.nextEventId
       /\ t.completed_at = NoTime

\* exactly one remote event was created by the request, by its only
\* calendar call
oneEventCreated ==
    /\ calendarCalls =
          <<Call("insert", last.user, NoEvent, last.req.title, last.req.start,
                 last.req.end)>>
    /\ ~eventExists(prev.events, last.user, prev.nextEventId)
    /\ events = prev.events \cup {[id |-> prev.nextEventId, owner |-> last.user]}

(* C17 (amended): every successful addEvent(title, start, end) creates      *)
(* exactly one remote event, with a single create-event call; when the      *)
(* todo insert that follows succeeds, it creates exactly one new todo,      *)
(* owned by the caller, with title = the event title, due_date = the event  *)
(* start, priority medium, status pending and calendar_event_id = the new   *)
(* event's id; when that insert fails, no todo is created and the answer    *)
(* is the same.                                                             *)
C17_EventCreatesTodo ==
    addEventDone
    => /\ oneEventCreated
       /\ last.connected = "true"
       /\ IF last.fault = "none" THEN oneTodoForEvent ELSE todos = prev.todos

\* an event was added and its todo created and linked
C17_Witness ==
    /\ addEventDone
    /\ last.fault = "none"
    /\ prev.nextTodoId \in DOMAIN todos
    /\ todos[prev.nextTodoId].calendar_event_id = prev.nextEventId
    /\ todos[prev.nextTodoId].title = <<" ", "a">>
    /\ eventExists(events, last.user, prev.nextEventId)

(* C17 as the specification states it: every successful addEvent creates    *)
(* exactly one remote event and exactly one new todo of the caller with     *)
(* the event's title and start, priority medium, status pending and the     *)
(* new event's id as its link.                                              *)
C17_AsStated ==
    addEventDone => (oneEventCreated /\ oneTodoForEvent)

(* C18: calendar-originated update as the specification states it: after  *)
(* an updateEvent(eventId, title, start, end) answered with success and    *)
(* met by no fault, every todo of the caller whose calendar_event_id was   *)
(* eventId has title = the event's new title and due_date = its new start, *)
(* with status, priority, link and completed_at unchanged, and no other    *)
(* todo is created, modified or deleted.                                   *)
C18_EventUpdateSyncsTodo ==
    (/\ last.op = "updateEvent"
     /\ last.status = 200
     /\ noFault)
    => /\ DOMAIN todos = DOMAIN prev.todos
       /\ \A i \in DOMAIN prev.todos :
             IF i \in wereLinked(last.req.eventId)
             THEN /\ todos[i].title = last.req.title
                  /\ truthyDate(todos[i].due_date)
                  /\ todos[i].due_date.t = last.req.start.t
                  /\ todos[i].status = prev.todos[i].status
                  /\ todos[i].priority = prev.todos[i].priority
                  /\ todos[i].calendar_event_id = prev.todos[i].calendar_event_id
                  /\ todos[i].completed_at = prev.todos[i].completed_at
             ELSE todos[i] = prev.todos[i]

\* the remote call of a calendar endpoint went through: the caller had a
\* usable credential and the provider accepted the call
remoteDone ==
    /\ calendarDirect
    /\ hadCredential
    /\ noTokenFault
    /\ ~remoteRefuses

\* the store failed the todo insert, lookup, update or delete that follows
\* the remote call
todoSyncFailed == last.fault \in {"fetch", "link"}

(* C19: an addEvent, updateEvent or deleteEvent whose remote calendar call  *)
(* succeeded is answered with the success response, 200 with connected =    *)
(* true, also when the store fails the todo insert, lookup, update or       *)
(* delete that follows; the remote change stands and the todos are then     *)
(* left as they were.                                                       *)
C19_CalendarSurvivesTodoFailure ==
    remoteDone
    => /\ last.status = 200
       /\ last.connected = "true"
       /\ Len(calendarCalls) = 1
       /\ todoSyncFailed
          => /\ todos = prev.todos
             /\ last.op = "addEvent"
                => eventExists(events, last.user, prev.nextEventId)
             /\ last.op = "deleteEvent"
                => ~eventExists(events, last.user, last.req.eventId)

\* an event was deleted and the deletion of its linked todo failed: the
\* answer is the success response and the todo is still stored
C19_Witness ==
    /\ remoteDone
    /\ last.op = "deleteEvent"
    /\ last.fault = "link"
    /\ wereLinked(last.req.eventId) # {}
    /\ todos = prev.todos
    /\ last.status = 200
    /\ last.connected = "true"

\* the request is a todo mutation by :id that was refused
rejectedMutation ==
    /\ last.op \in {"updateTodo", "deleteTodo", "completeTodo",
                    "linkTodoToCalendar"}
    /\ last.status \in {400, 401, 404}

(* C20: an updateTodo whose read of the row went through is answered 404   *)
(* when no todo has the id, 401 when the todo belongs to another user, and *)
(* 400 when it is the caller's and the patch names none of title,          *)
(* description, priority, status, dueDate (and 400 only then); every       *)
(* updateTodo, deleteTodo, completeTodo or linkTodoToCalendar answered     *)
(* 400, 401 or 404 leaves the todos, the credentials and the provider's    *)
(* events as they were, returns no todo and makes no gateway call.         *)
C20_RejectedMutationNoEffect ==
    /\ (last.op = "updateTodo" /\ last.fault # "fetch")
       => /\ last.id \notin DOMAIN prev.todos => last.status = 404
          /\ foreignTodo => last.status = 401
          /\ (/\ last.id \in DOMAIN prev.todos
              /\ prev.todos[last.id].user_id = last.user
              /\ ~patchNamesField(last.req))
             => last.status = 400
          /\ last.status = 400 => ~patchNamesField(last.req)
          /\ last.status = 401 => foreignTodo
          /\ last.status = 404 => last.id \notin DOMAIN prev.todos
    /\ rejectedMutation
       => /\ todos = prev.todos
          /\ tokens = prev.tokens
          /\ events = prev.events
          /\ last.calls = <<>>
          /\ last.sync = "none"
          /\ last.body = NoBody

\* an empty patch for the caller's own linked todo was refused with 400
C20_Witness ==
    /\ onStoredTodo("updateTodo")
    /\ prev.todos[last.id].user_id = last.user
    /\ prev.todos[last.id].calendar_event_id # NoEvent
    /\ ~patchNamesField(last.req)
    /\ last.status = 400
    /\ todos = prev.todos
    /\ last.calls = <<>>

\* rank of a priority in the order high, medium, low
priorityRank(p) ==
    CASE p = "high" -> 3 [] p = "medium" -> 2 [] p = "low" -> 1 [] OTHER -> 0

\* a is listed before b: earlier due date, no due date last, then higher
\* priority, then created later; the order names no place for a todo
\* without a priority
listedBefore(a, b) ==
    IF truthyDate(a.due_date) /\ ~truthyDate(b.due_date) THEN TRUE
    ELSE IF ~truthyDate(a.due_date) /\ truthyDate(b.due_date) THEN FALSE
    ELSE IF truthyDate(a.due_date) /\ a.due_date.t # b.due_date.t
    THEN a.due_date.t < b.due_date.t
    ELSE IF a.priority = Null \/ b.priority = Null THEN TRUE
    ELSE IF priorityRank(a.priority) # priorityRank(b.priority)
    THEN priorityRank(a.priority) > priorityRank(b.priority)
    ELSE a.id > b.id

(* C21: list ordering as the specification states it: a getTodos answered  *)
(* 200 lists exactly the caller's todos (those with the given status when  *)
(* the filter names one), each once, ordered by due date ascending with    *)
(* todos without a due date last, then by priority in the order high,      *)
(* medium, low, then by creation time descending.                          *)
C21_ListOrdered ==
    (last.op = "getTodos" /\ last.status = 200)
    => /\ {last.list[k] : k \in 1..Len(last.list)} =
             {i \in DOMAIN prev.todos :
                 /\ prev.todos[i].user_id = last.user
                 /\ last.req.filter \notin {Undef, ""}
                    => prev.todos[i].status = last.req.filter}
       /\ \A j, k \in 1..Len(last.list) :
             j < k => /\ last.list[j] # last.list[k]
                      /\ listedBefore(prev.todos[last.list[j]],
                                      prev.todos[last.list[k]])

\* a completeTodo of the owner whose read and write of the row went through
ownToggle ==
    /\ onStoredTodo("completeTodo")
    /\ prev.todos[last.id].user_id = last.user
    /\ last.fault = "none"

(* C22: a completeTodo by the owner whose store operations succeed sets     *)
(* status to pending and completed_at to null when the status was           *)
(* completed, and otherwise sets status to completed and completed_at to a  *)
(* timestamp; it changes no other field of the todo, no other todo, no      *)
(* credential and no event, makes no gateway call, and returns the todo as  *)
(* stored.                                                                  *)
C22_CompleteToggleLocal ==
    ownToggle
    => /\ last.status = 200
       /\ DOMAIN todos = DOMAIN prev.todos
       /\ IF prev.todos[last.id].status = "completed"
          THEN /\ todos[last.id].status = "pending"
               /\ todos[last.id].completed_at = NoTime
          ELSE /\ todos[last.id].status = "completed"
               /\ todos[last.id].completed_at # NoTime
       /\ [todos[last.id] EXCEPT !.status = "s", !.completed_at = 0] =
             [prev.todos[last.id] EXCEPT !.status = "s", !.completed_at = 0]
       /\ \A i \in DOMAIN todos \ {last.id} : todos[i] = prev.todos[i]
       /\ last.calls = <<>>
       /\ last.sync = "none"
       /\ tokens = prev.tokens
       /\ events = prev.events
       /\ last.body = format(todos[last.id])

\* a completed todo with a completion time was toggled back to pending
C22_Witness ==
    /\ ownToggle
    /\ prev.todos[last.id].status = "completed"
    /\ prev.todos[last.id].completed_at # NoTime
    /\ todos[last.id].status = "pending"
    /\ todos[last.id].completed_at = NoTime
    /\ last.status = 200

\* a title as the todos table is meant to hold it
storedTitleOk(t) == t # <<>> /\ isTrimOf(t, t)

(* C23: every stored todo has a non-empty, trimmed title: createTodo with a *)
(* missing or whitespace-only title answers 400 and stores nothing, and no  *)
(* updateTodo patch and no calendar-side creation or update leaves a todo   *)
(* with an empty or untrimmed title.                                        *)
C23_TitleValid ==
    /\ \A i \in DOMAIN todos : storedTitleOk(todos[i].title)
    /\ (last.op = "createTodo" /\ ~validTitle(last.req.title))
          => (last.status = 400 /\ todos = prev.todos)

\* every client has sent a request and every request has been answered
allDone == \A p \in Procs : runs[p].pc = "done"

\* the requests of the clients are the only ones the server has taken so far
firstRound == ops = Cardinality({p \in Procs : runs[p].pc # "idle"})

\* the remote events that concurrent updateTodo requests created
raceCreated ==
    {runs[p].eventId :
        p \in {q \in Procs : /\ runs[q].op = "updateTodo"
                              /\ runs[q].sync = "create"
                              /\ runs[q].syncOk}}

\* the requests taken so far are updateTodo requests on todo 1, and neither
\* the store nor the gateway failed any of them
updateRace ==
    /\ firstRound
    /\ \A p \in Procs :
          /\ runs[p].op \in {"init", "updateTodo"}
          /\ runs[p].fault = "none"
          /\ runs[p].gwFault = "none"

(* C24: however concurrent updateTodo requests on one todo interleave, at   *)
(* most one remote event is created for the todo, and once all requests     *)
(* have finished every remote event that exists is the one the todo's       *)
(* calendar_event_id refers to.                                             *)
C24_NoDoubleCreation ==
    updateRace
    => /\ Cardinality(raceCreated) <= 1
       /\ allDone =>
             \A e \in events :
                \E i \in DOMAIN todos : todos[i].calendar_event_id = e.id

\* the access tokens Google has handed out to the calls in flight
issuedTokens ==
    {runs[p].credentials.access_token :
        p \in {q \in Procs : runs[q].credentials # NoIssued}}

\* the concurrent calls found A's token inside the expiry buffer, with a
\* refresh token, and neither Google nor the store failed any of them
refreshRace ==
    /\ allDone
    /\ firstRound
    /\ prev.tokens = Connected(1)
    /\ \A p \in Procs : runs[p].user = "A" /\ runs[p].gwFault = "none"

(* C25: when concurrent refreshTokenIfNeeded calls for one user find the    *)
(* stored token inside the 5-minute buffer and no call to Google or to the  *)
(* store fails, then however they interleave every call returns a non-null  *)
(* credential whose access token a refresh issued, the store ends with      *)
(* exactly one record for the user, holding one of the issued access tokens *)
(* with the expiry issued with it, and the record still has a refresh       *)
(* token.                                                                   *)
C25_BenignConcurrentRefresh ==
    refreshRace
    => /\ \A p \in Procs :
             /\ runs[p].credential # NoCred
             /\ runs[p].credential.accessToken \in issuedTokens
       /\ Cardinality(tokenRows(tokens, "A")) = 1
       /\ \A i \in tokenRows(tokens, "A") :
             /\ \E p \in Procs :
                   /\ runs[p].credentials # NoIssued
                   /\ tokens[i].access_token = runs[p].credentials.access_token
                   /\ tokens[i].expiry_date = runs[p].credentials.expiry_date
             /\ tokens[i].refresh_token # NoRefresh

\* two calls both read the expiring token, were issued different access
\* tokens with different expiries, the first without and the second with a
\* refresh token in Google's answer, and both stored theirs
C25_Witness ==
    /\ refreshRace
    /\ \A p \in Procs : runs[p].credentials # NoIssued
    /\ \A p \in Procs : runs[p].tokenData = Connected(1)[1]
    /\ runs[1].credentials.access_token # runs[2].credentials.access_token
    /\ runs[1].credentials.expiry_date # runs[2].credentials.expiry_date
    /\ runs[1].credentials.refresh_token = NoRefresh
    /\ runs[2].credentials.refresh_token # NoRefresh

(* C26: whenever createTodo or updateTodo answers 2xx, the calendarEventId  *)
(* of the returned todo is the calendar_event_id stored for that todo at    *)
(* that moment, also when the store write that sets or clears the link      *)
(* failed after the gateway call succeeded.                                 *)
C26_ResponseReflectsLink ==
    (/\ last.op \in {"createTodo", "updateTodo"}
     /\ last.status \in {200, 201})
    => /\ last.id \in DOMAIN todos
       /\ last.body.calendarEventId = todos[last.id].calendar_event_id

\* the todos a request changed or removed
touched ==
    {i \in DOMAIN prev.todos : i \notin DOMAIN todos \/ todos[i] # prev.todos[i]}

(* C27: an updateEvent or deleteEvent request of a user with event id E     *)
(* changes or deletes only todos of that user whose calendar_event_id is E; *)
(* a todo of another user is left as it was, even when it is linked to E.   *)
C27_EventSyncScopedToCaller ==
    last.op \in {"updateEvent", "deleteEvent"}
    => \A i \in touched :
          /\ prev.todos[i].user_id = last.user
          /\ prev.todos[i].calendar_event_id = last.req.eventId

\* A's request on event 1 went through at the provider while only B's todo
\* was linked to event 1, and B's todo is as it was
C27_Witness ==
    /\ last.op \in {"updateEvent", "deleteEvent"}
    /\ last.user = "A"
    /\ last.status = 200
    /\ last.fault = "none"
    /\ last.req.eventId = 1
    /\ \E i \in DOMAIN prev.todos :
          /\ prev.todos[i].user_id = "B"
          /\ prev.todos[i].calendar_event_id = 1
          /\ todos[i] = prev.todos[i]
    /\ \A i \in DOMAIN prev.todos : prev.todos[i].user_id = "B"

\* an updateTodo of the owner on a stored todo that got as far as the write
ownUpdate ==
    /\ onStoredTodo("updateTodo")
    /\ prev.todos[last.id].user_id = last.user
    /\ last.status \in {200, 500}
    /\ last.fault # "write"

\* the patch left the stored title and the stored due date as they were
nothingToSync ==
    /\ todos[last.id].title = prev.todos[last.id].title
    /\ todos[last.id].due_date = prev.todos[last.id].due_date

(* C28 as stated: updateTodo makes a gateway call only when the stored      *)
(* title or the stored due date differs before and after the patch.         *)
C28_AsStated ==
    (ownUpdate /\ last.calls # <<>>) => ~nothingToSync

(* C28: updateTodo makes a gateway call only when the patch names a title   *)
(* that differs, as sent, from the stored title, or a dueDate that differs, *)
(* as sent, from the stored due_date value; a patch whose title and dueDate *)
(* are absent or identical to the stored values makes no gateway call.      *)
(* A title that equals the stored one only after trimming, or a dueDate     *)
(* that denotes the stored instant in another notation, counts as changed:  *)
(* when the todo has a link or has a due date after the patch, the handler  *)
(* runs its calendar synchronisation, which makes exactly one calendar call *)
(* when the gateway has a usable credential for the caller and none when it *)
(* has not; when the todo has neither, no gateway call is made.             *)
C28_CallOnlyOnRawChange ==
  /\ (ownUpdate /\ last.calls # <<>>)
     => \/ /\ last.req.title # UndefTitle
           /\ last.req.title # prev.todos[last.id].title
        \/ /\ last.req.dueDate # UndefDate
           /\ last.req.dueDate # prev.todos[last.id].due_date
  /\ (/\ ownUpdate
      /\ last.status = 200
      /\ sentChange
      /\ \/ prev.todos[last.id].calendar_event_id # NoEvent
         \/ truthyDate(todos[last.id].due_date))
     => /\ last.sync \in {"update", "create", "delete"}
        /\ last.cred \in {"ok", "missing"}
        /\ last.cred = "ok" => Len(calendarCalls) = 1
        /\ last.cred = "missing" => calendarCalls = <<>>
        /\ (hadCredential
              /\ last.gwFault \notin {"tokSelErr", "refreshReject", "tokUpdErr"})
           => last.cred = "ok"
  /\ (/\ ownUpdate
      /\ last.status = 200
      /\ prev.todos[last.id].calendar_event_id = NoEvent
      /\ ~truthyDate(todos[last.id].due_date))
     => last.calls = <<>>

\* a padded title that trims to the stored one led to a remote update
C28_Witness ==
    /\ ownUpdate
    /\ nothingToSync
    /\ last.req.title # UndefTitle
    /\ last.req.dueDate = UndefDate
    /\ \E k \in 1..Len(last.calls) : last.calls[k].kind = "update"

\* the owner's updateTodo found the todo without a link
unlinkedUpdate ==
    /\ ownUpdate
    /\ prev.todos[last.id].calendar_event_id = NoEvent

\* the remote inserts among the calls of the request
insertCalls == SelectSeq(last.calls, LAMBDA c : c.kind = "insert")

\* one event was created for the todo's due date and the todo refers to it
createdAndLinked ==
    /\ Len(insertCalls) = 1
    /\ insertCalls[1].start = toISOString(getTime(todos[last.id].due_date))
    /\ insertCalls[1].end = toISOString(getTime(todos[last.id].due_date) + HourMs)
    /\ insertCalls[1].title = todos[last.id].title
    /\ Cardinality(events \ prev.events) = 1
    /\ prev.events \subseteq events
    /\ \A e \in events \ prev.events :
          /\ e.owner = last.user
          /\ todos[last.id].calendar_event_id = e.id
          /\ last.body.calendarEventId = e.id


\* the credential rows stored under u's id
rowsOf(tk, u) == SelectSeq(tk, LAMBDA r : r.user_id = u)

(* C30: the credential record stored under a user's id is created or        *)
(* overwritten only by a request that this user made as the authenticated   *)
(* caller: no request of another user and no unauthenticated request writes *)
(* it.                                                                      *)
C30_CredentialWrittenByOwnerOnly ==
    \A u \in Users :
       (rowsOf(tokens, u) # rowsOf(prev.tokens, u) /\ rowsOf(tokens, u) # <<>>)
       => principal = u

====
